---- MODULE Spec2Model ----
(***************************************************************************)
(* State-machine model of the percolator slab (one shard): freelist-backed *)
(* pools, the linked-list orderbook and the two-phase reserve / commit     *)
(* engine, translated from programs/slab/src.                              *)
(*                                                                         *)
(* The whole shard is one record `slab` (SlabState).  Every instruction is *)
(* an operator from a slab to a result record [err, slab, ...]; an action  *)
(* applies one instruction and stores its result in `ret`.  The functions  *)
(* are modelled as they stand: what process_* has written before it        *)
(* returns Err stays written.                                              *)
(***************************************************************************)
EXTENDS Integers, Sequences, FiniteSets, TLC

VARIABLES slab, ret, hist, shards, out, router, insurance

vars == <<slab, ret, hist, shards, out, router, insurance>>

(* ---------------------------------------------------------------------- *)
(* Bounds of the model (the pools of the program are far larger).          *)
(* ---------------------------------------------------------------------- *)
NOrders == 2
NPositions == 2
NReservations == 2
NSlices == 2
NTrades == 2
MaxSeqno == 5
MaxHoldId == 3
SCALE == 100

(* Program constants.  INVALID_INDEX is u32::MAX in the program; it is only *)
(* ever compared for equality or found out of every pool's range, and is    *)
(* written -1 here (the model checker's integers are 32-bit signed).        *)
INVALID_INDEX == -1
KILL_BAND_BPS == 100
TAKER_FEE_BPS == 20
BPS_DENOM == 10000
BATCH_MS == 100
FREEZE_LEVELS == 3

(* Input domains *)
InstrIdx == {0, 1}
AcctIdx == {0, 1}
Sides == {"Buy", "Sell"}
Prices == {100, 101}
Qtys == {1, 2}
TtlSet == {0, 1}
TsSet == {1, 2}
MarkSet == {0, 100, 101, 102}
EpochSet == {1, 2}
MakerQtys == {10, 20}
TakerQtys == {10, 25}
LimitSet == {100, 102}
BatchTsSet == {BATCH_MS, BATCH_MS + 49, 2 * BATCH_MS}

OrderIdx == 0 .. (NOrders - 1)
PositionIdx == 0 .. (NPositions - 1)
ReservationIdx == 0 .. (NReservations - 1)
SliceIdx == 0 .. (NSlices - 1)
TradeIdx == 0 .. (NTrades - 1)

Min(a, b) == IF a < b THEN a ELSE b
Abs(a) == IF a < 0 THEN -a ELSE a
saturating_sub(a, b) == IF a > b THEN a - b ELSE 0

(* ---------------------------------------------------------------------- *)
(* Records as they are after initialize: the account data is zero-filled,  *)
(* then SlabHeader::new and initialize_pools write the header and the      *)
(* freelist links.                                                         *)
(* ---------------------------------------------------------------------- *)
FreeLink(i, n) == IF i + 1 < n THEN i + 1 ELSE INVALID_INDEX

ZeroOrder(i) ==
  [used |-> FALSE, next_free |-> FreeLink(i, NOrders), order_id |-> 0,
   account_idx |-> 0, instrument_idx |-> 0, side |-> "Buy", state |-> "LIVE",
   price |-> 0, qty_orig |-> 0, qty |-> 0, reserved_qty |-> 0,
   eligible_epoch |-> 0, prev |-> 0, next |-> 0]

ZeroPosition(i) ==
  [used |-> FALSE, index |-> FreeLink(i, NPositions), account_idx |-> 0,
   instrument_idx |-> 0, qty |-> 0, entry_px |-> 0, next_in_account |-> 0]

ZeroReservation(i) ==
  [used |-> FALSE, index |-> FreeLink(i, NReservations), hold_id |-> 0,
   account_idx |-> 0, instrument_idx |-> 0, side |-> "Buy", qty |-> 0,
   vwap_px |-> 0, worst_px |-> 0, max_charge |-> 0, book_seqno |-> 0,
   expiry_ms |-> 0, slice_head |-> 0, committed |-> FALSE]

ZeroSlice(i) ==
  [used |-> FALSE, index |-> FreeLink(i, NSlices), order_idx |-> 0,
   qty |-> 0, next |-> 0]

ZeroTrade ==
  [order_id_maker |-> 0, instrument_idx |-> 0, side |-> "Buy", price |-> 0,
   qty |-> 0, ts |-> 0]

ZeroInstrument ==
  [bids_head |-> 0, asks_head |-> 0, bids_pending_head |-> 0,
   asks_pending_head |-> 0, epoch |-> 0, batch_open_ms |-> 0,
   freeze_until_ms |-> 0, contract_size |-> 0]

NewInstrument ==
  [bids_head |-> INVALID_INDEX, asks_head |-> INVALID_INDEX,
   bids_pending_head |-> INVALID_INDEX, asks_pending_head |-> INVALID_INDEX,
   epoch |-> 0, batch_open_ms |-> 0, freeze_until_ms |-> 0, contract_size |-> SCALE]

ZeroAccount == [active |-> FALSE, position_head |-> 0, cash |-> 0, im |-> 0, mm |-> 0]

NewHeader ==
  [seqno |-> 0, current_epoch |-> 0, next_order_id |-> 1, next_hold_id |-> 1,
   last_batch_open_ts |-> 0, mark_px |-> 0, prev_mark_px |-> 0,
   imr_bps |-> 1000, mmr_bps |-> 500,
   instrument_count |-> 0, account_count |-> 0, order_count |-> 0, position_count |-> 0,
   reservation_count |-> 0, slice_count |-> 0, trade_write_idx |-> 0,
   order_freelist_head |-> 0, position_freelist_head |-> 0,
   reservation_freelist_head |-> 0, slice_freelist_head |-> 0]

(* process_initialize_slab: the header, and the freelists of initialize_pools *)
InitSlab ==
  [header |-> NewHeader,
   instruments |-> [i \in InstrIdx |-> ZeroInstrument],
   accounts |-> [a \in AcctIdx |-> ZeroAccount],
   orders |-> [i \in OrderIdx |-> ZeroOrder(i)],
   positions |-> [i \in PositionIdx |-> ZeroPosition(i)],
   reservations |-> [i \in ReservationIdx |-> ZeroReservation(i)],
   slices |-> [i \in SliceIdx |-> ZeroSlice(i)],
   trades |-> [i \in TradeIdx |-> ZeroTrade]]

(* ---------------------------------------------------------------------- *)
(* Header                                                                  *)
(* ---------------------------------------------------------------------- *)
increment_seqno(s) == [s EXCEPT !.header.seqno = @ + 1]

(* [slab, id]: the id handed out and the header after it. *)
next_order_id(s) ==
  [slab |-> [s EXCEPT !.header.next_order_id = @ + 1], id |-> s.header.next_order_id]

(* Variant: the counter is read and not advanced. *)
next_hold_id_not_advanced(s) == [slab |-> s, id |-> s.header.next_hold_id]

next_hold_id(s) ==
  [slab |-> [s EXCEPT !.header.next_hold_id = @ + 1], id |-> s.header.next_hold_id]

update_mark_px(s, new_mark_px) ==
  [s EXCEPT !.header.prev_mark_px = s.header.mark_px,
            !.header.mark_px = new_mark_px]

(* ---------------------------------------------------------------------- *)
(* Pools.  alloc_* return [slab, idx] with idx = INVALID_INDEX for None.   *)
(* ---------------------------------------------------------------------- *)
get_order(s, idx) == idx \in OrderIdx /\ s.orders[idx].used
get_position(s, idx) == idx \in PositionIdx /\ s.positions[idx].used
get_reservation(s, idx) == idx \in ReservationIdx /\ s.reservations[idx].used
get_slice(s, idx) == idx \in SliceIdx /\ s.slices[idx].used
get_instrument(s, idx) == idx \in InstrIdx /\ idx < s.header.instrument_count
get_account(s, idx) == idx \in AcctIdx /\ s.accounts[idx].active

alloc_order(s) ==
  LET head == s.header.order_freelist_head IN
  IF head = INVALID_INDEX THEN [slab |-> s, idx |-> INVALID_INDEX]
  ELSE [slab |-> [s EXCEPT !.header.order_freelist_head = s.orders[head].next_free,
                           !.orders[head].used = TRUE,
                           !.orders[head].next_free = INVALID_INDEX,
                           !.header.order_count = @ + 1],
        idx |-> head]

free_order(s, idx) ==
  IF idx \notin OrderIdx THEN s
  ELSE IF ~s.orders[idx].used THEN s
  ELSE [s EXCEPT !.orders[idx].used = FALSE,
                 !.orders[idx].next_free = s.header.order_freelist_head,
                 !.header.order_freelist_head = idx,
                 !.header.order_count = saturating_sub(@, 1)]

alloc_position(s) ==
  LET head == s.header.position_freelist_head IN
  IF head = INVALID_INDEX THEN [slab |-> s, idx |-> INVALID_INDEX]
  ELSE [slab |-> [s EXCEPT !.header.position_freelist_head = s.positions[head].index,
                           !.positions[head].used = TRUE,
                           !.positions[head].index = head,
                           !.header.position_count = @ + 1],
        idx |-> head]

free_position(s, idx) ==
  IF idx \notin PositionIdx THEN s
  ELSE IF ~s.positions[idx].used THEN s
  ELSE [s EXCEPT !.positions[idx].used = FALSE,
                 !.positions[idx].index = s.header.position_freelist_head,
                 !.header.position_freelist_head = idx,
                 !.header.position_count = saturating_sub(@, 1)]

alloc_reservation(s) ==
  LET head == s.header.reservation_freelist_head IN
  IF head = INVALID_INDEX THEN [slab |-> s, idx |-> INVALID_INDEX]
  ELSE [slab |-> [s EXCEPT !.header.reservation_freelist_head = s.reservations[head].index,
                           !.reservations[head].used = TRUE,
                           !.reservations[head].index = head,
                           !.header.reservation_count = @ + 1],
        idx |-> head]

free_reservation(s, idx) ==
  IF idx \notin ReservationIdx THEN s
  ELSE IF ~s.reservations[idx].used THEN s
  ELSE [s EXCEPT !.reservations[idx].used = FALSE,
                 !.reservations[idx].index = s.header.reservation_freelist_head,
                 !.header.reservation_freelist_head = idx,
                 !.header.reservation_count = saturating_sub(@, 1)]

alloc_slice(s) ==
  LET head == s.header.slice_freelist_head IN
  IF head = INVALID_INDEX THEN [slab |-> s, idx |-> INVALID_INDEX]
  ELSE [slab |-> [s EXCEPT !.header.slice_freelist_head = s.slices[head].index,
                           !.slices[head].used = TRUE,
                           !.slices[head].index = head,
                           !.header.slice_count = @ + 1],
        idx |-> head]

free_slice(s, idx) ==
  IF idx \notin SliceIdx THEN s
  ELSE IF ~s.slices[idx].used THEN s
  ELSE [s EXCEPT !.slices[idx].used = FALSE,
                 !.slices[idx].index = s.header.slice_freelist_head,
                 !.header.slice_freelist_head = idx,
                 !.header.slice_count = saturating_sub(@, 1)]

(* Variant: the scan does not test the used flag of a slot. *)
find_reservation_by_hold_id_any_slot(s, hold_id) ==
  LET hits == {i \in ReservationIdx : s.reservations[i].hold_id = hold_id} IN
  IF hits = {} THEN INVALID_INDEX
  ELSE CHOOSE i \in hits : \A j \in hits : i <= j

(* The lowest in-use slot carrying hold_id, or INVALID_INDEX for None. *)
find_reservation_by_hold_id(s, hold_id) ==
  LET hits == {i \in ReservationIdx :
                 s.reservations[i].used /\ s.reservations[i].hold_id = hold_id} IN
  IF hits = {} THEN INVALID_INDEX
  ELSE CHOOSE i \in hits : \A j \in hits : i <= j

record_trade(s, trade) ==
  [s EXCEPT !.trades[s.header.trade_write_idx % NTrades] = trade,
            !.header.trade_write_idx = @ + 1]

(* Accounts are appended in creation order; the key of account i is i. *)
get_or_create_account(s, key) ==
  IF key < s.header.account_count /\ s.accounts[key].active THEN s
  ELSE IF key = s.header.account_count /\ key \in AcctIdx
  THEN [s EXCEPT !.accounts[key] = [active |-> TRUE, position_head |-> INVALID_INDEX,
                                      cash |-> 0, im |-> 0, mm |-> 0],
                 !.header.account_count = @ + 1]
  ELSE s

(* ---------------------------------------------------------------------- *)
(* Book operations                                                         *)
(* ---------------------------------------------------------------------- *)
HeadOf(instr, state, side) ==
  IF state = "LIVE"
  THEN (IF side = "Buy" THEN instr.bids_head ELSE instr.asks_head)
  ELSE (IF side = "Buy" THEN instr.bids_pending_head ELSE instr.asks_pending_head)

SetHead(s, instrument_idx, state, side, v) ==
  IF state = "LIVE"
  THEN (IF side = "Buy"
        THEN [s EXCEPT !.instruments[instrument_idx].bids_head = v]
        ELSE [s EXCEPT !.instruments[instrument_idx].asks_head = v])
  ELSE (IF side = "Buy"
        THEN [s EXCEPT !.instruments[instrument_idx].bids_pending_head = v]
        ELSE [s EXCEPT !.instruments[instrument_idx].asks_pending_head = v])

(* Variant: the scan also stops at an order of the same price. *)
RECURSIVE InsertScan_before_equal(_, _, _, _, _, _)
InsertScan_before_equal(s, side, price, prev_idx, curr_idx, fuel) ==
  IF curr_idx = INVALID_INDEX \/ fuel = 0 THEN <<prev_idx, curr_idx>>
  ELSE IF ~get_order(s, curr_idx) THEN <<prev_idx, curr_idx>>
  ELSE LET curr == s.orders[curr_idx]
           should_insert_before ==
             IF side = "Buy" THEN price >= curr.price ELSE price <= curr.price
       IN IF should_insert_before THEN <<prev_idx, curr_idx>>
          ELSE InsertScan_before_equal(s, side, price, curr_idx, curr.next, fuel - 1)

(* The scan of insert_order_into_book: <<prev_idx, curr_idx>> where it stops. *)
RECURSIVE InsertScan(_, _, _, _, _, _)
InsertScan(s, side, price, prev_idx, curr_idx, fuel) ==
  IF curr_idx = INVALID_INDEX \/ fuel = 0 THEN <<prev_idx, curr_idx>>
  ELSE IF ~get_order(s, curr_idx) THEN <<prev_idx, curr_idx>>
  ELSE LET curr == s.orders[curr_idx]
           should_insert_before ==
             IF side = "Buy" THEN price > curr.price ELSE price < curr.price
       IN IF should_insert_before THEN <<prev_idx, curr_idx>>
          ELSE InsertScan(s, side, price, curr_idx, curr.next, fuel - 1)

insert_order_into_book(s, order_idx, instrument_idx) ==
  IF ~get_order(s, order_idx) THEN s
  ELSE IF ~get_instrument(s, instrument_idx) THEN s
  ELSE
    LET order == s.orders[order_idx]
        head == HeadOf(s.instruments[instrument_idx], order.state, order.side)
        pc == InsertScan(s, order.side, order.price, INVALID_INDEX, head, NOrders + 1)
        prev_idx == pc[1]
        curr_idx == pc[2]
        s1 == [s EXCEPT !.orders[order_idx].next = curr_idx,
                        !.orders[order_idx].prev = prev_idx]
        s2 == IF curr_idx # INVALID_INDEX /\ get_order(s1, curr_idx)
              THEN [s1 EXCEPT !.orders[curr_idx].prev = order_idx]
              ELSE s1
        s3 == IF prev_idx = INVALID_INDEX
              THEN SetHead(s2, instrument_idx, order.state, order.side, order_idx)
              ELSE IF get_order(s2, prev_idx)
                   THEN [s2 EXCEPT !.orders[prev_idx].next = order_idx]
                   ELSE s2
    IN increment_seqno(s3)

remove_order_from_book(s, order_idx) ==
  IF ~get_order(s, order_idx) THEN s
  ELSE
    LET order == s.orders[order_idx]
        prev == order.prev
        next == order.next
        s1 == IF prev # INVALID_INDEX
              THEN (IF get_order(s, prev)
                    THEN [s EXCEPT !.orders[prev].next = next]
                    ELSE s)
              ELSE (IF get_instrument(s, order.instrument_idx)
                    THEN SetHead(s, order.instrument_idx, order.state, order.side, next)
                    ELSE s)
        s2 == IF next # INVALID_INDEX /\ get_order(s1, next)
              THEN [s1 EXCEPT !.orders[next].prev = prev]
              ELSE s1
        s3 == [s2 EXCEPT !.orders[order_idx].prev = INVALID_INDEX,
                         !.orders[order_idx].next = INVALID_INDEX]
    IN increment_seqno(s3)

(* INVALID_INDEX for None *)
get_best_contra(s, instrument_idx, side) ==
  IF ~get_instrument(s, instrument_idx) THEN INVALID_INDEX
  ELSE IF side = "Buy" THEN s.instruments[instrument_idx].asks_head
  ELSE s.instruments[instrument_idx].bids_head

(* Posting a resting order: alloc_order, the new record, and                *)
(* insert_order_into_book.  The program has no instruction for it; the      *)
(* record is the one the data model describes for a fresh order.            *)
place_order(s, account_idx, instrument_idx, side, state, price, qty, eligible_epoch) ==
  LET a == alloc_order(s) IN
  IF a.idx = INVALID_INDEX THEN [err |-> "PoolFull", slab |-> s, order_idx |-> INVALID_INDEX]
  ELSE
    LET n == next_order_id(a.slab)
        s1 == [n.slab EXCEPT
                 !.orders[a.idx].order_id = n.id,
                 !.orders[a.idx].account_idx = account_idx,
                 !.orders[a.idx].instrument_idx = instrument_idx,
                 !.orders[a.idx].side = side,
                 !.orders[a.idx].state = state,
                 !.orders[a.idx].price = price,
                 !.orders[a.idx].qty_orig = qty,
                 !.orders[a.idx].qty = qty,
                 !.orders[a.idx].reserved_qty = 0,
                 !.orders[a.idx].eligible_epoch = eligible_epoch,
                 !.orders[a.idx].prev = INVALID_INDEX,
                 !.orders[a.idx].next = INVALID_INDEX]
    IN [err |-> "Ok", slab |-> insert_order_into_book(s1, a.idx, instrument_idx),
        order_idx |-> a.idx]

(* ---------------------------------------------------------------------- *)
(* Reserve (phase 1)                                                       *)
(* ---------------------------------------------------------------------- *)
mul_u64(a, b) == a * b

calculate_vwap(total_notional, filled_qty) ==
  IF filled_qty = 0 THEN 0 ELSE total_notional \div filled_qty

(* One pass of the while loop of walk_and_reserve over the accumulator w    *)
(* = [slab, order_idx, qty_remaining, total_qty, total_notional, worst_px,  *)
(* slice_head, prev_slice_idx]; err is "PoolFull" when alloc_slice fails    *)
(* (the ? returns at once, with w.slab as the walk has left it).            *)
RECURSIVE WalkLoop(_, _, _, _)
WalkLoop(w, side, limit_px, fuel) ==
  IF ~(w.qty_remaining > 0 /\ w.order_idx # INVALID_INDEX) THEN [err |-> "Ok", w |-> w]
  ELSE IF fuel = 0 THEN [err |-> "NoReturn", w |-> w]
  ELSE IF ~get_order(w.slab, w.order_idx) THEN [err |-> "Ok", w |-> w]
  ELSE
    LET order == w.slab.orders[w.order_idx]
        price_ok == IF side = "Buy" THEN order.price <= limit_px
                    ELSE order.price >= limit_px
        available == saturating_sub(order.qty, order.reserved_qty)
    IN
    IF ~price_ok THEN [err |-> "Ok", w |-> w]
    ELSE IF available = 0
    THEN WalkLoop([w EXCEPT !.order_idx = order.next], side, limit_px, fuel - 1)
    ELSE
      LET take == Min(available, w.qty_remaining)
          a == alloc_slice(w.slab)
      IN
      IF a.idx = INVALID_INDEX THEN [err |-> "PoolFull", w |-> w]
      ELSE
        LET slice_idx == a.idx
            s1 == [a.slab EXCEPT !.slices[slice_idx].order_idx = w.order_idx,
                                 !.slices[slice_idx].qty = take,
                                 !.slices[slice_idx].next = INVALID_INDEX]
            s2 == IF w.slice_head = INVALID_INDEX THEN s1
                  ELSE IF get_slice(s1, w.prev_slice_idx)
                       THEN [s1 EXCEPT !.slices[w.prev_slice_idx].next = slice_idx]
                       ELSE s1
            s3 == [s2 EXCEPT !.orders[w.order_idx].reserved_qty = @ + take]
        IN WalkLoop(
             [slab |-> s3,
              order_idx |-> order.next,
              qty_remaining |-> w.qty_remaining - take,
              total_qty |-> w.total_qty + take,
              total_notional |-> w.total_notional + mul_u64(take, order.price),
              worst_px |-> order.price,
              slice_head |-> IF w.slice_head = INVALID_INDEX THEN slice_idx
                             ELSE w.slice_head,
              prev_slice_idx |-> slice_idx],
             side, limit_px, fuel - 1)

walk_and_reserve(s, instrument_idx, side, qty, limit_px) ==
  LET w0 == [slab |-> s, order_idx |-> get_best_contra(s, instrument_idx, side),
             qty_remaining |-> qty, total_qty |-> 0, total_notional |-> 0,
             worst_px |-> 0, slice_head |-> INVALID_INDEX,
             prev_slice_idx |-> INVALID_INDEX]
  IN WalkLoop(w0, side, limit_px, NOrders + 1)

ReserveErr(e, s) ==
  [err |-> e, slab |-> s, hold_id |-> 0, vwap_px |-> 0, worst_px |-> 0,
   filled_qty |-> 0, max_charge |-> 0, expiry_ms |-> 0, book_seqno |-> 0]

process_reserve(s, account_idx, instrument_idx, side, qty, limit_px, ttl_ms) ==
  IF ~get_instrument(s, instrument_idx) THEN ReserveErr("InvalidInstrument", s)
  ELSE IF qty = 0 THEN ReserveErr("InvalidQuantity", s)
  ELSE IF limit_px = 0 THEN ReserveErr("InvalidPrice", s)
  ELSE
    LET a == alloc_reservation(s) IN
    IF a.idx = INVALID_INDEX THEN ReserveErr("PoolFull", s)
    ELSE
      LET resv_idx == a.idx
          n == next_hold_id(a.slab)
          hold_id == n.id
          s1 == n.slab
          book_seqno == s1.header.seqno
          expiry_ms == ttl_ms
          r == walk_and_reserve(s1, instrument_idx, side, qty, limit_px)
          w == r.w
      IN
      IF r.err # "Ok" THEN ReserveErr(r.err, w.slab)
      ELSE IF w.total_qty = 0
      THEN ReserveErr("InsufficientLiquidity", free_reservation(w.slab, resv_idx))
      ELSE
        LET vwap_px == calculate_vwap(w.total_notional, w.total_qty)
            fee == (w.total_notional * TAKER_FEE_BPS) \div BPS_DENOM
            max_charge == w.total_notional + fee
            s2 == [w.slab EXCEPT
                     !.reservations[resv_idx].hold_id = hold_id,
                     !.reservations[resv_idx].account_idx = account_idx,
                     !.reservations[resv_idx].instrument_idx = instrument_idx,
                     !.reservations[resv_idx].side = side,
                     !.reservations[resv_idx].qty = w.total_qty,
                     !.reservations[resv_idx].vwap_px = vwap_px,
                     !.reservations[resv_idx].worst_px = w.worst_px,
                     !.reservations[resv_idx].max_charge = max_charge,
                     !.reservations[resv_idx].book_seqno = book_seqno,
                     !.reservations[resv_idx].expiry_ms = expiry_ms,
                     !.reservations[resv_idx].slice_head = w.slice_head,
                     !.reservations[resv_idx].committed = FALSE]
        IN [err |-> "Ok", slab |-> increment_seqno(s2), hold_id |-> hold_id,
            vwap_px |-> vwap_px, worst_px |-> w.worst_px,
            filled_qty |-> w.total_qty, max_charge |-> max_charge,
            expiry_ms |-> expiry_ms, book_seqno |-> book_seqno]

(* ---------------------------------------------------------------------- *)
(* Commit (phase 2)                                                        *)
(* ---------------------------------------------------------------------- *)

(* The while loop of execute_fills over acc = [slab, total_qty,             *)
(* total_notional, total_fees].                                             *)
RECURSIVE FillLoop(_, _, _, _)
FillLoop(acc, slice_idx, current_ts, fuel) ==
  IF slice_idx = INVALID_INDEX \/ fuel = 0 THEN acc
  ELSE IF ~get_slice(acc.slab, slice_idx) THEN acc
  ELSE
    LET s == acc.slab
        slice == s.slices[slice_idx]
        order_idx == slice.order_idx
        fill_qty == slice.qty
        next_slice == slice.next
    IN
    IF ~get_order(s, order_idx)
    THEN FillLoop([acc EXCEPT !.slab = free_slice(s, slice_idx)],
                  next_slice, current_ts, fuel - 1)
    ELSE
      LET order == s.orders[order_idx]
          fill_price == order.price
          fill_notional == mul_u64(fill_qty, fill_price)
          taker_fee == (fill_notional * TAKER_FEE_BPS) \div BPS_DENOM
          s1 == [s EXCEPT
                   !.orders[order_idx].qty = saturating_sub(@, fill_qty),
                   !.orders[order_idx].reserved_qty = saturating_sub(@, fill_qty)]
          s2 == IF s1.orders[order_idx].qty = 0
                THEN free_order(remove_order_from_book(s1, order_idx), order_idx)
                ELSE s1
          trade == [ts |-> current_ts,
                    order_id_maker |-> IF get_order(s2, order_idx)
                                       THEN s2.orders[order_idx].order_id ELSE 0,
                    instrument_idx |-> order.instrument_idx,
                    side |-> "Buy",
                    price |-> fill_price,
                    qty |-> fill_qty]
          s3 == record_trade(s2, trade)
      IN FillLoop([slab |-> free_slice(s3, slice_idx),
                   total_qty |-> acc.total_qty + fill_qty,
                   total_notional |-> acc.total_notional + fill_notional,
                   total_fees |-> acc.total_fees + taker_fee],
                  next_slice, current_ts, fuel - 1)

(* Variant: the fills start at the second slice of the chain. *)
execute_fills_after_head(s, slice_head, current_ts) ==
  FillLoop([slab |-> s, total_qty |-> 0, total_notional |-> 0, total_fees |-> 0],
           IF get_slice(s, slice_head) THEN s.slices[slice_head].next ELSE slice_head,
           current_ts, NSlices + 1)

execute_fills(s, slice_head, current_ts) ==
  FillLoop([slab |-> s, total_qty |-> 0, total_notional |-> 0, total_fees |-> 0],
           slice_head, current_ts, NSlices + 1)

(* The loop shared by release_reservation_slices and release_slices. *)
RECURSIVE ReleaseLoop(_, _, _)
ReleaseLoop(s, slice_idx, fuel) ==
  IF slice_idx = INVALID_INDEX \/ fuel = 0 THEN s
  ELSE IF ~get_slice(s, slice_idx) THEN s
  ELSE
    LET slice == s.slices[slice_idx]
        s1 == IF get_order(s, slice.order_idx)
              THEN [s EXCEPT !.orders[slice.order_idx].reserved_qty =
                                saturating_sub(@, slice.qty)]
              ELSE s
    IN ReleaseLoop(free_slice(s1, slice_idx), slice.next, fuel - 1)

(* Variant: the chain is left as it is. *)
release_reservation_slices_skipped(s, resv_idx) == s

release_reservation_slices(s, resv_idx) ==
  IF ~get_reservation(s, resv_idx) THEN s
  ELSE ReleaseLoop(s, s.reservations[resv_idx].slice_head, NSlices + 1)

(* [kind, idx]: "Some" idx, "None", or "NoReturn" when the walk of the      *)
(* account's chain never ends (the chain has a cycle without the            *)
(* instrument).                                                             *)
RECURSIVE FindLoop(_, _, _, _)
FindLoop(s, pos_idx, instrument_idx, fuel) ==
  IF pos_idx = INVALID_INDEX THEN [kind |-> "None", idx |-> INVALID_INDEX]
  ELSE IF fuel = 0 THEN [kind |-> "NoReturn", idx |-> INVALID_INDEX]
  ELSE IF ~get_position(s, pos_idx) THEN [kind |-> "None", idx |-> INVALID_INDEX]
  ELSE IF s.positions[pos_idx].instrument_idx = instrument_idx
       THEN [kind |-> "Some", idx |-> pos_idx]
  ELSE FindLoop(s, s.positions[pos_idx].next_in_account, instrument_idx, fuel - 1)

find_position(s, account_idx, instrument_idx) ==
  IF ~get_account(s, account_idx) THEN [kind |-> "None", idx |-> INVALID_INDEX]
  ELSE FindLoop(s, s.accounts[account_idx].position_head, instrument_idx,
                NPositions + 1)

update_position(s, account_idx, instrument_idx, side, fill_qty, fill_price) ==
  LET qty_change == IF side = "Buy" THEN fill_qty ELSE -fill_qty
      f == find_position(s, account_idx, instrument_idx)
  IN
  IF f.kind = "NoReturn" THEN [err |-> "NoReturn", slab |-> s]
  ELSE IF f.kind = "Some"
  THEN
    LET idx == f.idx
        old_qty == s.positions[idx].qty
        old_entry == s.positions[idx].entry_px
        new_qty == old_qty + qty_change
    IN
    IF new_qty = 0 THEN [err |-> "Ok", slab |-> free_position(s, idx)]
    ELSE
      LET adding == (old_qty > 0 /\ qty_change > 0) \/ (old_qty < 0 /\ qty_change < 0)
          new_notional == Abs(old_qty) * old_entry + Abs(qty_change) * fill_price
          new_entry == IF adding /\ Abs(new_qty) > 0
                       THEN new_notional \div Abs(new_qty)
                       ELSE old_entry
      IN [err |-> "Ok",
          slab |-> [s EXCEPT !.positions[idx].qty = new_qty,
                             !.positions[idx].entry_px = new_entry]]
  ELSE
    LET a == alloc_position(s) IN
    IF a.idx = INVALID_INDEX THEN [err |-> "PoolFull", slab |-> s]
    ELSE
      LET new_idx == a.idx
          s1 == [a.slab EXCEPT !.positions[new_idx].account_idx = account_idx,
                               !.positions[new_idx].instrument_idx = instrument_idx,
                               !.positions[new_idx].qty = qty_change,
                               !.positions[new_idx].entry_px = fill_price,
                               !.positions[new_idx].next_in_account = INVALID_INDEX]
          s2 == IF get_account(s1, account_idx)
                THEN [s1 EXCEPT !.positions[new_idx].next_in_account =
                                   s1.accounts[account_idx].position_head,
                                !.accounts[account_idx].position_head = new_idx]
                ELSE s1
      IN [err |-> "Ok", slab |-> s2]

(* Variant: the move is compared without its absolute value. *)
KillBandExceeded_signed(s) ==
  LET mark_at_reserve == s.header.prev_mark_px
      mark_now == s.header.mark_px
  IN /\ mark_at_reserve # 0
     /\ mark_now # 0
     /\ mark_now - mark_at_reserve >
          (Abs(mark_at_reserve) * KILL_BAND_BPS) \div BPS_DENOM

(* The kill-band test of process_commit (not taken when either mark is 0). *)
KillBandExceeded(s) ==
  LET mark_at_reserve == s.header.prev_mark_px
      mark_now == s.header.mark_px
  IN /\ mark_at_reserve # 0
     /\ mark_now # 0
     /\ Abs(mark_now - mark_at_reserve) >
          (Abs(mark_at_reserve) * KILL_BAND_BPS) \div BPS_DENOM

CommitErr(e, s) ==
  [err |-> e, slab |-> s, filled_qty |-> 0, vwap_px |-> 0, notional |-> 0, fees |-> 0]

(* process_commit once the position is updated (u): the reservation is    *)
(* marked committed and freed, the seqno incremented.                      *)
CommitSettled(resv_idx, x, vwap_px, u) ==
  IF u.err # "Ok" THEN CommitErr(u.err, u.slab)
  ELSE
    LET s1 == IF get_reservation(u.slab, resv_idx)
              THEN [u.slab EXCEPT !.reservations[resv_idx].committed = TRUE]
              ELSE u.slab
        s2 == free_reservation(s1, resv_idx)
    IN [err |-> "Ok", slab |-> increment_seqno(s2), filled_qty |-> x.total_qty,
        vwap_px |-> vwap_px, notional |-> x.total_notional,
        fees |-> x.total_fees]

(* process_commit once the fills are executed (x): the VWAP and the        *)
(* position update.                                                         *)
CommitPriced(resv_idx, resv, x, vwap_px) ==
  CommitSettled(resv_idx, x, vwap_px,
                update_position(x.slab, resv.account_idx, resv.instrument_idx,
                                resv.side, x.total_qty, vwap_px))

CommitFilled(resv_idx, resv, x) ==
  CommitPriced(resv_idx, resv, x,
               IF x.total_qty > 0 THEN x.total_notional \div x.total_qty ELSE 0)

process_commit(s, hold_id, current_ts) ==
  LET resv_idx == find_reservation_by_hold_id(s, hold_id) IN
  IF resv_idx = INVALID_INDEX THEN CommitErr("ReservationNotFound", s)
  ELSE
    LET resv == s.reservations[resv_idx] IN
    IF resv.committed THEN CommitErr("InvalidReservation", s)
    ELSE IF current_ts > resv.expiry_ms /\ resv.expiry_ms > 0
    THEN CommitErr("ReservationExpired",
                   free_reservation(release_reservation_slices(s, resv_idx), resv_idx))
    ELSE IF KillBandExceeded(s)
    THEN CommitErr("KillBandExceeded",
                   free_reservation(release_reservation_slices(s, resv_idx), resv_idx))
    ELSE CommitFilled(resv_idx, resv, execute_fills(s, resv.slice_head, current_ts))

(* ---------------------------------------------------------------------- *)
(* Cancel                                                                  *)
(* ---------------------------------------------------------------------- *)
(* Variant: only the head slice is released. *)
release_slices_head_only(s, slice_head) == ReleaseLoop(s, slice_head, 1)

release_slices(s, slice_head) == ReleaseLoop(s, slice_head, NSlices + 1)

process_cancel(s, hold_id) ==
  LET resv_idx == find_reservation_by_hold_id(s, hold_id) IN
  IF resv_idx = INVALID_INDEX THEN [err |-> "ReservationNotFound", slab |-> s]
  ELSE IF s.reservations[resv_idx].committed
  THEN [err |-> "InvalidReservation", slab |-> s]
  ELSE
    LET s1 == release_slices(s, s.reservations[resv_idx].slice_head)
        s2 == free_reservation(s1, resv_idx)
    IN [err |-> "Ok", slab |-> increment_seqno(s2)]

(* Variant: the order is removed whatever is reserved on it. *)
process_cancel_order_whole(s, order_idx, account_idx) ==
  IF ~get_order(s, order_idx) THEN [err |-> "OrderNotFound", slab |-> s]
  ELSE IF s.orders[order_idx].account_idx # account_idx
  THEN [err |-> "Unauthorized", slab |-> s]
  ELSE [err |-> "Ok",
        slab |-> increment_seqno(
                   free_order(remove_order_from_book(s, order_idx), order_idx))]

process_cancel_order(s, order_idx, account_idx) ==
  IF ~get_order(s, order_idx) THEN [err |-> "OrderNotFound", slab |-> s]
  ELSE
    LET order == s.orders[order_idx] IN
    IF order.account_idx # account_idx THEN [err |-> "Unauthorized", slab |-> s]
    ELSE IF order.reserved_qty > 0
    THEN
      IF saturating_sub(order.qty, order.reserved_qty) = 0
      THEN [err |-> "ReservedQtyExceeded", slab |-> s]
      ELSE [err |-> "Ok",
            slab |-> increment_seqno(
                       [s EXCEPT !.orders[order_idx].qty = order.reserved_qty,
                                 !.orders[order_idx].qty_orig = order.reserved_qty])]
    ELSE [err |-> "Ok",
          slab |-> increment_seqno(
                     free_order(remove_order_from_book(s, order_idx), order_idx))]

(* The for loop of cleanup_expired_reservations from slot i on. *)
RECURSIVE CleanupLoop(_, _, _, _, _)
CleanupLoop(s, i, cleaned, current_ts, max_cleanup) ==
  IF i >= NReservations \/ cleaned >= max_cleanup THEN [slab |-> s, cleaned |-> cleaned]
  ELSE IF ~get_reservation(s, i) THEN CleanupLoop(s, i + 1, cleaned, current_ts, max_cleanup)
  ELSE IF s.reservations[i].committed
       THEN CleanupLoop(s, i + 1, cleaned, current_ts, max_cleanup)
  ELSE IF s.reservations[i].expiry_ms > 0 /\ current_ts > s.reservations[i].expiry_ms
       THEN CleanupLoop(
              free_reservation(release_slices(s, s.reservations[i].slice_head), i),
              i + 1, cleaned + 1, current_ts, max_cleanup)
  ELSE CleanupLoop(s, i + 1, cleaned, current_ts, max_cleanup)

(* Variant: the sweep does not stop at max_cleanup. *)
cleanup_expired_uncapped(s, current_ts, max_cleanup) ==
  LET c == CleanupLoop(s, 0, 0, current_ts, NReservations) IN
  [err |-> "Ok",
   slab |-> IF c.cleaned > 0 THEN increment_seqno(c.slab) ELSE c.slab,
   cleaned |-> c.cleaned]

(* Variant: the sweep starts at the second reservation slot. *)
cleanup_expired_after_first(s, current_ts, max_cleanup) ==
  LET c == CleanupLoop(s, 1, 0, current_ts, max_cleanup) IN
  [err |-> "Ok",
   slab |-> IF c.cleaned > 0 THEN increment_seqno(c.slab) ELSE c.slab,
   cleaned |-> c.cleaned]

cleanup_expired_reservations(s, current_ts, max_cleanup) ==
  LET c == CleanupLoop(s, 0, 0, current_ts, max_cleanup) IN
  [err |-> "Ok",
   slab |-> IF c.cleaned > 0 THEN increment_seqno(c.slab) ELSE c.slab,
   cleaned |-> c.cleaned]

(* ---------------------------------------------------------------------- *)
(* Instruments and mark price.  The symbol of the k-th instrument added is *)
(* taken to be new, and its contract size, tick and lot non-zero.          *)
(* ---------------------------------------------------------------------- *)
process_add_instrument(s, initial_mark) ==
  LET idx == s.header.instrument_count IN
  IF idx \notin InstrIdx THEN [err |-> "PoolFull", slab |-> s]
  ELSE
    LET s1 == [s EXCEPT !.instruments[idx] = NewInstrument,
                        !.header.instrument_count = idx + 1]
        s2 == IF s1.header.mark_px = 0
              THEN [s1 EXCEPT !.header.mark_px = initial_mark]
              ELSE s1
    IN [err |-> "Ok", slab |-> increment_seqno(s2)]

process_update_mark_price(s, instrument_idx, new_mark_px) ==
  IF ~get_instrument(s, instrument_idx) THEN [err |-> "InvalidInstrument", slab |-> s]
  ELSE [err |-> "Ok", slab |-> increment_seqno(update_mark_px(s, new_mark_px))]

(* ---------------------------------------------------------------------- *)
(* Batch open                                                              *)
(* ---------------------------------------------------------------------- *)

(* One pending list of promote_pending_orders, from pending_head on. *)
RECURSIVE PromoteLoop(_, _, _, _, _)
PromoteLoop(s, pending_head, instrument_idx, current_epoch, fuel) ==
  IF pending_head = INVALID_INDEX \/ fuel = 0 THEN s
  ELSE IF ~get_order(s, pending_head) THEN s
  ELSE
    LET order == s.orders[pending_head]
        next == order.next
        s1 == IF order.eligible_epoch <= current_epoch
              THEN LET r == remove_order_from_book(s, pending_head)
                       l == IF get_order(r, pending_head)
                            THEN [r EXCEPT !.orders[pending_head].state = "LIVE"]
                            ELSE r
                   IN insert_order_into_book(l, pending_head, instrument_idx)
              ELSE s
    IN PromoteLoop(s1, next, instrument_idx, current_epoch, fuel - 1)

(* Variant: an order becomes eligible one epoch late. *)
promote_pending_orders_late(s, instrument_idx, current_epoch) ==
  IF ~get_instrument(s, instrument_idx) THEN s
  ELSE
    LET s1 == PromoteLoop(s, s.instruments[instrument_idx].bids_pending_head,
                          instrument_idx, current_epoch - 1, NOrders + 1)
    IN PromoteLoop(s1, s1.instruments[instrument_idx].asks_pending_head,
                   instrument_idx, current_epoch - 1, NOrders + 1)

promote_pending_orders(s, instrument_idx, current_epoch) ==
  IF ~get_instrument(s, instrument_idx) THEN s
  ELSE
    LET s1 == PromoteLoop(s, s.instruments[instrument_idx].bids_pending_head,
                          instrument_idx, current_epoch, NOrders + 1)
    IN PromoteLoop(s1, s1.instruments[instrument_idx].asks_pending_head,
                   instrument_idx, current_epoch, NOrders + 1)

apply_freeze_levels(s, instrument_idx, current_ts) ==
  IF FREEZE_LEVELS = 0 THEN s
  ELSE IF get_instrument(s, instrument_idx)
  THEN [s EXCEPT !.instruments[instrument_idx].freeze_until_ms =
                   current_ts + (BATCH_MS \div 2)]
  ELSE s

(* Variant: the batch window is measured without batch_ms. *)
process_batch_open_no_window(s, instrument_idx, current_ts) ==
  IF ~get_instrument(s, instrument_idx) THEN [err |-> "InvalidInstrument", slab |-> s]
  ELSE IF current_ts < s.header.last_batch_open_ts
  THEN [err |-> "BatchNotOpen", slab |-> s]
  ELSE
    LET new_epoch == s.header.current_epoch + 1
        s1 == [s EXCEPT !.header.current_epoch = new_epoch,
                        !.instruments[instrument_idx].epoch = new_epoch % 65536,
                        !.instruments[instrument_idx].batch_open_ms = current_ts]
        s2 == promote_pending_orders(s1, instrument_idx, new_epoch)
        s3 == apply_freeze_levels(s2, instrument_idx, current_ts)
        s4 == [s3 EXCEPT !.header.last_batch_open_ts = current_ts]
    IN [err |-> "Ok", slab |-> increment_seqno(s4)]

process_batch_open(s, instrument_idx, current_ts) ==
  IF ~get_instrument(s, instrument_idx) THEN [err |-> "InvalidInstrument", slab |-> s]
  ELSE IF current_ts < s.header.last_batch_open_ts + BATCH_MS
  THEN [err |-> "BatchNotOpen", slab |-> s]
  ELSE
    LET new_epoch == s.header.current_epoch + 1
        s1 == [s EXCEPT !.header.current_epoch = new_epoch,
                        !.instruments[instrument_idx].epoch = new_epoch % 65536,
                        !.instruments[instrument_idx].batch_open_ms = current_ts]
        s2 == promote_pending_orders(s1, instrument_idx, new_epoch)
        s3 == apply_freeze_levels(s2, instrument_idx, current_ts)
        s4 == [s3 EXCEPT !.header.last_batch_open_ts = current_ts]
    IN [err |-> "Ok", slab |-> increment_seqno(s4)]

is_frozen(s, instrument_idx, current_ts) ==
  IF get_instrument(s, instrument_idx)
  THEN current_ts < s.instruments[instrument_idx].freeze_until_ms
  ELSE FALSE

(* ---------------------------------------------------------------------- *)
(* The state machine                                                       *)
(*   slab  the shard                                                       *)
(*   ret   the last instruction: its name, its error code ("Ok" for Ok),   *)
(*         and a tag: "undo" for a successful cancel of the hold that the  *)
(*         instruction just before it reserved, else "committed" or        *)
(*         "cancelled" for a commit or cancel of a hold that had already   *)
(*         been committed or cancelled, else ""                            *)
(*   hist  hold id -> "live" once a reserve has returned it, "committed"   *)
(*         or "cancelled" once a commit / cancel of it has returned Ok     *)
(*         (history only)                                                  *)
(* ---------------------------------------------------------------------- *)
HoldIds == 0 .. MaxHoldId

BookView(s) ==
  [heads |-> [i \in InstrIdx |-> <<s.instruments[i].bids_head, s.instruments[i].asks_head,
                                   s.instruments[i].bids_pending_head,
                                   s.instruments[i].asks_pending_head>>],
   orders |-> [i \in OrderIdx |->
                 IF s.orders[i].used
                 THEN <<s.orders[i].order_id, s.orders[i].prev, s.orders[i].next,
                        s.orders[i].price, s.orders[i].qty_orig, s.orders[i].qty,
                        s.orders[i].reserved_qty>>
                 ELSE <<>>],
   free_reservations |-> NReservations - s.header.reservation_count,
   free_slices |-> NSlices - s.header.slice_count]

(* An instruction that never returns leaves nothing to observe. *)
Apply(op, hold, r) ==
  /\ slab' = IF r.err = "NoReturn" THEN slab ELSE r.slab
  /\ ret' = [op |-> op, err |-> r.err,
             tag |-> IF op = "cancel" /\ r.err = "Ok" /\ ret.op = "reserve"
                        /\ ret.err = "Ok" /\ slab.header.next_hold_id = hold + 1
                     THEN "undo"
                     ELSE IF op \in {"commit", "cancel"}
                             /\ hist[hold] \in {"committed", "cancelled"}
                     THEN hist[hold]
                     ELSE ""]
  /\ hist' = IF r.err # "Ok" THEN hist
             ELSE IF op = "reserve" THEN [hist EXCEPT ![hold] = "live"]
             ELSE IF op = "commit" /\ hist[hold] = "live"
                  THEN [hist EXCEPT ![hold] = "committed"]
             ELSE IF op = "cancel" /\ hist[hold] = "live"
                  THEN [hist EXCEPT ![hold] = "cancelled"]
             ELSE hist
  /\ UNCHANGED <<shards, out, router, insurance>>

(* Instructions are issued while the shard's seqno is below lim. *)
Budget(lim) == slab.header.seqno < lim

(* A shard with n instruments: initialize, then add_instrument n times. *)
RECURSIVE ShardWith(_, _)
ShardWith(n, initial_mark) ==
  IF n = 0 THEN InitSlab
  ELSE process_add_instrument(ShardWith(n - 1, initial_mark), initial_mark).slab

InitShard ==
  /\ slab = ShardWith(1, 100)
  /\ ret = [op |-> "init", err |-> "Ok", tag |-> ""]
  /\ hist = [h \in HoldIds |-> "none"]

Init ==
  /\ InitShard
  /\ insurance = <<>>
  /\ shards = <<>>
  /\ out = <<>>
  /\ router = <<>>

PlaceOrderIn(lim, accts, instrs, sides, prices, qtys) ==
  /\ Budget(lim)
  /\ \E a \in accts, i \in instrs, sd \in sides, px \in prices, q \in qtys :
       Apply("place_order", 0, place_order(slab, a, i, sd, "LIVE", px, q, 0))

PlacePendingIn(lim, accts, instrs, sides, prices, qtys, epochs) ==
  /\ Budget(lim)
  /\ \E a \in accts, i \in instrs, sd \in sides, px \in prices, q \in qtys, e \in epochs :
       Apply("place_pending", 0, place_order(slab, a, i, sd, "PENDING", px, q, e))

ReserveIn(lim, accts, instrs, sides, qtys, prices, ttls) ==
  /\ Budget(lim)
  /\ slab.header.next_hold_id <= MaxHoldId
  /\ \E a \in accts, i \in instrs, sd \in sides, q \in qtys, px \in prices, ttl \in ttls :
       LET r == process_reserve(slab, a, i, sd, q, px, ttl) IN
       Apply("reserve", r.hold_id, r)

CommitIn(lim, tss) ==
  /\ Budget(lim)
  /\ \E h \in HoldIds, ts \in tss : Apply("commit", h, process_commit(slab, h, ts))

CancelIn(lim) ==
  /\ Budget(lim)
  /\ \E h \in HoldIds : Apply("cancel", h, process_cancel(slab, h))

CancelOrderIn(lim, accts) ==
  /\ Budget(lim)
  /\ \E o \in OrderIdx, a \in accts :
       Apply("cancel_order", 0, process_cancel_order(slab, o, a))

CleanupIn(lim, tss) ==
  /\ Budget(lim)
  /\ \E ts \in tss, m \in {1, 2} :
       Apply("cleanup", 0, cleanup_expired_reservations(slab, ts, m))

(* An account is opened by get_or_create_account; the key of the i-th      *)
(* account opened is i.                                                     *)
OpenAccountIn(lim, accts) ==
  /\ Budget(lim)
  /\ \E a \in accts :
       Apply("open_account", 0, [err |-> "Ok", slab |-> get_or_create_account(slab, a)])

BatchOpenIn(lim, instrs, tss) ==
  /\ Budget(lim)
  /\ \E i \in instrs, ts \in tss :
       Apply("batch_open", 0, process_batch_open(slab, i, ts))

UpdateMarkPriceIn(lim, marks) ==
  /\ Budget(lim)
  /\ \E px \in marks :
       Apply("update_mark_price", 0, process_update_mark_price(slab, 0, px))

(* One instrument, resting asks, one Buy taker. *)
NextCore(lim) ==
  \/ PlaceOrderIn(lim, {0}, {0}, {"Sell"}, Prices, Qtys)
  \/ ReserveIn(lim, {0}, {0}, {"Buy"}, Qtys \cup {0}, Prices, TtlSet)
  \/ CommitIn(lim, TsSet)
  \/ CancelIn(lim)
  \/ CancelOrderIn(lim, AcctIdx)
  \/ CleanupIn(lim, TsSet)

Next == NextCore(MaxSeqno)

Spec == Init /\ [][Next]_vars

NextDeep == NextCore(MaxSeqno + 2)

SpecDeep == Init /\ [][NextDeep]_vars

(* The same shard with mark-price updates: one resting price, one taker    *)
(* size.                                                                    *)
NextMark ==
  \/ PlaceOrderIn(MaxSeqno, {0}, {0}, {"Sell"}, {100}, Qtys)
  \/ ReserveIn(MaxSeqno, {0}, {0}, {"Buy"}, {1}, {100}, TtlSet)
  \/ CommitIn(MaxSeqno, TsSet)
  \/ CancelIn(MaxSeqno)
  \/ UpdateMarkPriceIn(MaxSeqno, MarkSet)

SpecMark == Init /\ [][NextMark]_vars

(* Batch auctions: live asks, pending orders on both sides, batch opens,   *)
(* and a Buy taker.                                                         *)
NextBatch ==
  \/ PlaceOrderIn(MaxSeqno, {0}, {0}, {"Sell"}, Prices, {1})
  \/ PlacePendingIn(MaxSeqno, {0}, {0}, Sides, Prices, {1}, EpochSet)
  \/ BatchOpenIn(MaxSeqno, {0}, BatchTsSet)
  \/ ReserveIn(MaxSeqno, {1}, {0}, {"Buy"}, {1}, {101}, {0})
  \/ CommitIn(MaxSeqno, {1})
  \/ CancelOrderIn(MaxSeqno, {0})

SpecBatch == Init /\ [][NextBatch]_vars

(* Two-level fills: resting asks of 10 and 20, Buy takers of 10 and 25. *)
NextFill ==
  \/ PlaceOrderIn(MaxSeqno, {0}, {0}, {"Sell"}, Prices, MakerQtys)
  \/ ReserveIn(MaxSeqno, {1}, {0}, {"Buy"}, TakerQtys, LimitSet, {0})
  \/ CommitIn(MaxSeqno, {1})
  \/ CancelIn(MaxSeqno)

SpecFill == Init /\ [][NextFill]_vars

(* Positions: one account that buys from asks at 101 and sells to bids at  *)
(* 100.                                                                     *)
NextPos ==
  \/ OpenAccountIn(MaxSeqno + 2, {0})
  \/ PlaceOrderIn(MaxSeqno + 2, {1}, {0}, {"Sell"}, {101}, {2})
  \/ PlaceOrderIn(MaxSeqno + 2, {1}, {0}, {"Buy"}, {100}, {2})
  \/ ReserveIn(MaxSeqno + 2, {0}, {0}, {"Buy"}, Qtys, {101}, {0})
  \/ ReserveIn(MaxSeqno + 2, {0}, {0}, {"Sell"}, Qtys, {100}, {0})
  \/ CommitIn(MaxSeqno + 2, {1})

SpecPos == Init /\ [][NextPos]_vars

(* ---------------------------------------------------------------------- *)
(* Measures used by the properties                                         *)
(* ---------------------------------------------------------------------- *)

(* The slices on the chain that starts at slice_idx. *)
RECURSIVE ChainSet(_, _, _)
ChainSet(s, slice_idx, fuel) ==
  IF slice_idx = INVALID_INDEX \/ fuel = 0 \/ ~get_slice(s, slice_idx) THEN {}
  ELSE {slice_idx} \cup ChainSet(s, s.slices[slice_idx].next, fuel - 1)

Chain(s, resv_idx) == ChainSet(s, s.reservations[resv_idx].slice_head, NSlices + 1)

RECURSIVE SliceQtySum(_, _)
SliceQtySum(s, S) ==
  IF S = {} THEN 0
  ELSE LET x == CHOOSE y \in S : TRUE
       IN s.slices[x].qty + SliceQtySum(s, S \ {x})

RECURSIVE ReservedQtySum(_, _)
ReservedQtySum(s, S) ==
  IF S = {} THEN 0
  ELSE LET x == CHOOSE y \in S : TRUE
       IN s.orders[x].reserved_qty + ReservedQtySum(s, S \ {x})

RECURSIVE LiveChainSum(_, _)
LiveChainSum(s, S) ==
  IF S = {} THEN 0
  ELSE LET x == CHOOSE y \in S : TRUE
       IN SliceQtySum(s, Chain(s, x)) + LiveChainSum(s, S \ {x})

UsedOrders(s) == {o \in OrderIdx : s.orders[o].used}
LiveReservations(s) == {i \in ReservationIdx : s.reservations[i].used}

(* The reservation a commit or cancel of its own hold id acts on. *)
Resolved(s, i) ==
  /\ s.reservations[i].used
  /\ \A j \in LiveReservations(s) :
       s.reservations[j].hold_id = s.reservations[i].hold_id => i <= j

Expired(s, i, current_ts) == current_ts > s.reservations[i].expiry_ms

(* s2 is s with reservation i freed and every slice of its chain released: *)
(* the slice back in the pool, its qty taken off its maker's reserved_qty, *)
(* and no order quantity, trade or position touched.                       *)
ReleasedFrom(s, i, s2) ==
  LET ch == Chain(s, i) IN
  /\ ~s2.reservations[i].used
  /\ \A x \in SliceIdx : s2.slices[x].used = (s.slices[x].used /\ x \notin ch)
  /\ s2.header.slice_count = s.header.slice_count - Cardinality(ch)
  /\ s2.header.reservation_count = s.header.reservation_count - 1
  /\ \A o \in OrderIdx :
       /\ s2.orders[o].used = s.orders[o].used
       /\ s2.orders[o].qty = s.orders[o].qty
       /\ s.orders[o].used =>
            s2.orders[o].reserved_qty =
              saturating_sub(s.orders[o].reserved_qty,
                             SliceQtySum(s, {x \in ch : s.slices[x].order_idx = o}))
  /\ s2.trades = s.trades
  /\ s2.header.trade_write_idx = s.header.trade_write_idx
  /\ s2.positions = s.positions
  /\ s2.instruments = s.instruments

(* ---------------------------------------------------------------------- *)
(* Properties                                                              *)
(* ---------------------------------------------------------------------- *)

(* C1: every order has reserved_qty <= qty <= qty_orig, and the sum of     *)
(* reserved_qty over all orders equals the sum of slice qty over the slice *)
(* chains of all live reservations.                                        *)
C1_ReservedQtyMatchesSlices ==
  /\ \A o \in UsedOrders(slab) :
       /\ slab.orders[o].reserved_qty <= slab.orders[o].qty
       /\ slab.orders[o].qty <= slab.orders[o].qty_orig
  /\ ReservedQtySum(slab, UsedOrders(slab)) = LiveChainSum(slab, LiveReservations(slab))

(* C2: a reserve never takes more from an order than its qty minus its     *)
(* reserved_qty, and a successful commit of a hold fills exactly the qty   *)
(* of the reservation it commits.                                          *)
C2_ReserveWithinAvailableCommitFillsReserved ==
  /\ \A a \in AcctIdx, i \in InstrIdx, sd \in Sides, q \in Qtys, px \in Prices,
        ttl \in TtlSet :
       LET r == process_reserve(slab, a, i, sd, q, px, ttl) IN
       \A o \in UsedOrders(slab) :
         r.slab.orders[o].reserved_qty - slab.orders[o].reserved_qty
           <= slab.orders[o].qty - slab.orders[o].reserved_qty
  /\ \A h \in HoldIds, ts \in TsSet :
       LET c == process_commit(slab, h, ts) IN
       c.err = "Ok" =>
         c.filled_qty = slab.reservations[find_reservation_by_hold_id(slab, h)].qty

(* C3: at most one position record per (account, instrument), and no       *)
(* position record with qty = 0.                                           *)
C3_OnePositionPerAccountInstrument ==
  \A p \in PositionIdx : slab.positions[p].used =>
    /\ slab.positions[p].qty # 0
    /\ \A q \in PositionIdx :
         (q # p /\ slab.positions[q].used) =>
           ~(/\ slab.positions[q].account_idx = slab.positions[p].account_idx
             /\ slab.positions[q].instrument_idx = slab.positions[p].instrument_idx)

(* C4: an instruction that returns an error leaves the shard exactly as it *)
(* was before the instruction.                                             *)
C4_ErrorLeavesShardUntouched ==
  [][ret'.err # "Ok" => slab' = slab]_vars

(* C5: a successful reserve followed at once by cancel of the returned     *)
(* hold gives back the book (heads, list order, qty and reserved_qty of    *)
(* every order) and the free counts of the reservation and slice pools.    *)
C5_ReserveThenCancelRestoresBook ==
  \A sd \in Sides, q \in Qtys, px \in Prices, ttl \in TtlSet :
    LET r == process_reserve(slab, 0, 0, sd, q, px, ttl) IN
    r.err = "Ok" =>
      LET c == process_cancel(r.slab, r.hold_id) IN
      /\ c.err = "Ok"
      /\ BookView(c.slab) = BookView(slab)

C5_Witness == ret.op = "cancel" /\ ret.err = "Ok" /\ ret.tag = "undo"

(* C6: for every live, uncommitted reservation the slice qty on its chain  *)
(* sums to the reservation's qty.                                          *)
C6_ChainSumEqualsReservationQty ==
  \A i \in LiveReservations(slab) :
    ~slab.reservations[i].committed =>
      SliceQtySum(slab, Chain(slab, i)) = slab.reservations[i].qty

(* C7 as stated: a commit of a hold that has already been committed        *)
(* returns InvalidReservation.                                             *)
C7_RecommitReturnsInvalidReservation ==
  \A h \in HoldIds : hist[h] = "committed" =>
    \A ts \in TsSet : process_commit(slab, h, ts).err = "InvalidReservation"

(* C7 amended: a commit of a hold that a reserve returned and that has     *)
(* already been committed fails and changes nothing; the error is          *)
(* ReservationNotFound, the committed reservation having been freed, or    *)
(* InvalidReservation when the freed slot is in use again with the         *)
(* committed record still in it.                                           *)
C7_RecommitFails ==
  \A h \in HoldIds : hist[h] = "committed" =>
    \A ts \in TsSet :
      LET c == process_commit(slab, h, ts)
          held == {i \in LiveReservations(slab) : slab.reservations[i].hold_id = h}
      IN /\ c.slab = slab
         /\ c.err = IF held = {} THEN "ReservationNotFound" ELSE "InvalidReservation"
         /\ \A i \in held : slab.reservations[i].committed

C7_Witness ==
  ret.op = "commit" /\ ret.tag = "committed" /\ ret.err = "ReservationNotFound"

(* C8: once a hold has been committed or cancelled, no reservation is      *)
(* found under its hold id ever after.                                     *)
C8_RetiredHoldUnresolvable ==
  \A h \in HoldIds : hist[h] \in {"committed", "cancelled"} =>
    find_reservation_by_hold_id(slab, h) = INVALID_INDEX

(* C9 as stated: for every uncommitted reservation a commit with           *)
(* current_ts > expiry_ms returns ReservationExpired, fills nothing, frees *)
(* the reservation and releases its slices.                                *)
C9_CommitPastExpiryReleases ==
  \A i \in ReservationIdx, ts \in TsSet :
    (Resolved(slab, i) /\ ~slab.reservations[i].committed /\ Expired(slab, i, ts)) =>
      LET c == process_commit(slab, slab.reservations[i].hold_id, ts) IN
      c.err = "ReservationExpired" /\ ReleasedFrom(slab, i, c.slab)

(* C9 amended: the same for every uncommitted reservation whose expiry_ms  *)
(* is non-zero; a reservation with expiry_ms = 0 never expires.            *)
C9_CommitPastNonZeroExpiryReleases ==
  \A i \in ReservationIdx, ts \in TsSet :
    (/\ Resolved(slab, i) /\ ~slab.reservations[i].committed
     /\ slab.reservations[i].expiry_ms > 0 /\ Expired(slab, i, ts)) =>
      LET c == process_commit(slab, slab.reservations[i].hold_id, ts) IN
      c.err = "ReservationExpired" /\ ReleasedFrom(slab, i, c.slab)

C9_Witness == ret.op = "commit" /\ ret.err = "ReservationExpired"

(* The kill-band condition as the specification words it. *)
MarkMovedBeyondBand(s) ==
  Abs(s.header.mark_px - s.header.prev_mark_px) >
    (s.header.prev_mark_px * KILL_BAND_BPS) \div BPS_DENOM

(* C10 as stated: whenever the mark has moved beyond the kill band, the    *)
(* commit of a live, unexpired hold returns KillBandExceeded, fills        *)
(* nothing, frees the reservation and releases its slices.                 *)
C10_KillBandRejects ==
  \A i \in ReservationIdx, ts \in TsSet :
    (/\ Resolved(slab, i) /\ ~slab.reservations[i].committed
     /\ ~(slab.reservations[i].expiry_ms > 0 /\ Expired(slab, i, ts))
     /\ MarkMovedBeyondBand(slab)) =>
      LET c == process_commit(slab, slab.reservations[i].hold_id, ts) IN
      c.err = "KillBandExceeded" /\ ReleasedFrom(slab, i, c.slab)

(* C10 amended: the same whenever both mark_px and prev_mark_px are        *)
(* positive; with either mark at 0 the kill band is not applied.           *)
C10_KillBandRejectsNonZeroMarks ==
  \A i \in ReservationIdx, ts \in TsSet :
    (/\ Resolved(slab, i) /\ ~slab.reservations[i].committed
     /\ ~(slab.reservations[i].expiry_ms > 0 /\ Expired(slab, i, ts))
     /\ slab.header.mark_px > 0 /\ slab.header.prev_mark_px > 0
     /\ MarkMovedBeyondBand(slab)) =>
      LET c == process_commit(slab, slab.reservations[i].hold_id, ts) IN
      c.err = "KillBandExceeded" /\ ReleasedFrom(slab, i, c.slab)

C10_Witness == ret.op = "commit" /\ ret.err = "KillBandExceeded"

(* C11: every instruction that changes any part of the shard leaves seqno  *)
(* strictly greater than it was.                                           *)
C11_StateChangeRaisesSeqno ==
  [][slab' # slab => slab'.header.seqno > slab.header.seqno]_vars

(* C12: every hold id a reserve returns is one never returned before and   *)
(* greater than every hold id returned before it; every order id given to  *)
(* a new order is greater than every order id given before it.             *)
C12_MintedIdsStrictlyIncrease ==
  [][/\ (ret'.op = "reserve" /\ ret'.err = "Ok") =>
          \E h \in HoldIds :
            /\ hist[h] = "none" /\ hist'[h] = "live"
            /\ \A g \in HoldIds : hist[g] # "none" => g < h
     /\ (ret'.op = "place_order" /\ ret'.err = "Ok") =>
          \E o \in OrderIdx :
            /\ ~slab.orders[o].used /\ slab'.orders[o].used
            /\ \A p \in OrderIdx : slab.orders[p].order_id < slab'.orders[o].order_id
    ]_vars

C12_Witness == hist[1] # "none" /\ hist[2] # "none" /\ Cardinality(UsedOrders(slab)) >= 2


(* ---------------------------------------------------------------------- *)
(* Book lists                                                              *)
(* ---------------------------------------------------------------------- *)

(* The orders reached from idx by next links, head first. *)
RECURSIVE ListFrom(_, _, _)
ListFrom(s, idx, fuel) ==
  IF idx \notin OrderIdx \/ fuel = 0 THEN <<>>
  ELSE <<idx>> \o ListFrom(s, s.orders[idx].next, fuel - 1)

BookList(s, i, state, side) ==
  ListFrom(s, HeadOf(s.instruments[i], state, side), NOrders + 1)

Members(L) == {L[j] : j \in 1 .. Len(L)}

Position(L, o) == CHOOSE j \in 1 .. Len(L) : L[j] = o

Before(L, a, b) == Position(L, a) < Position(L, b)

PriceSorted(s, L, side) ==
  \A j \in 1 .. (Len(L) - 1) :
    IF side = "Buy"
    THEN s.orders[L[j]].price >= s.orders[L[j + 1]].price
    ELSE s.orders[L[j]].price <= s.orders[L[j + 1]].price

(* One step s -> t seen from the list (i, state, side): the list is price  *)
(* sorted after it, and among its orders of equal price                     *)
(*   two that were in the list before keep their order,                     *)
(*   one that was in the list before precedes one that has just entered,    *)
(*   two that have just entered from the pending list of that side are in   *)
(*   the order in which that list was walked.                               *)
PriceTimeStep(s, t, i, state, side) ==
  LET L == BookList(s, i, state, side)
      M == BookList(t, i, state, side)
      P == BookList(s, i, "PENDING", side)
      old == {o \in Members(M) : /\ o \in Members(L)
                                  /\ s.orders[o].used
                                  /\ s.orders[o].order_id = t.orders[o].order_id}
      new == Members(M) \ old
  IN /\ PriceSorted(t, M, side)
     /\ Cardinality(Members(M)) = Len(M)
     /\ \A a \in Members(M), b \in Members(M) :
          (a # b /\ t.orders[a].price = t.orders[b].price) =>
            /\ (a \in old /\ b \in old /\ Before(L, a, b)) => Before(M, a, b)
            /\ (a \in old /\ b \in new) => Before(M, a, b)
            /\ (a \in new /\ b \in new /\ a \in Members(P) /\ b \in Members(P)
                  /\ Before(P, a, b)) => Before(M, a, b)

(* C13: every step (placement, reserve, commit with its fills, cancel,     *)
(* cancel-by-order, batch open with its promotions) leaves each bid list   *)
(* with prices non-increasing and each ask list with prices non-decreasing *)
(* from the head, live and pending alike, and among orders of equal price   *)
(* the one that entered the list earlier nearer the head.                   *)
C13_PriceTimePriorityKept ==
  [][\A i \in InstrIdx : i < slab'.header.instrument_count =>
       \A state \in {"LIVE", "PENDING"}, side \in Sides :
         PriceTimeStep(slab, slab', i, state, side)]_vars

(* A batch open has just promoted an ask into the live list behind a live  *)
(* ask of the same price.                                                   *)
C13_Witness ==
  /\ ret.op = "batch_open" /\ ret.err = "Ok"
  /\ LET M == BookList(slab, 0, "LIVE", "Sell")
     IN /\ Len(M) = 2
        /\ slab.orders[M[1]].price = slab.orders[M[2]].price
        /\ slab.orders[M[1]].eligible_epoch = 0
        /\ slab.orders[M[2]].eligible_epoch > 0



(* ---------------------------------------------------------------------- *)
(* Freeze window                                                           *)
(* ---------------------------------------------------------------------- *)

(* The live orders of (i, side) on the first n price levels from the head. *)
TopLevels(s, i, side, n) ==
  LET L == BookList(s, i, "LIVE", side)
  IN {L[j] : j \in {k \in 1 .. Len(L) :
                      Cardinality({s.orders[L[m]].price : m \in 1 .. k}) <= n}}

(* C14: while the instrument is frozen (a time ts before freeze_until_ms,  *)
(* i.e. within batch_ms / 2 of the batch open), a reserve takes nothing    *)
(* from the orders on the first freeze_levels price levels of the contra   *)
(* side: their reserved_qty is what it was.                                *)
C14_FrozenTopOfBookNotReserved ==
  \A ts \in BatchTsSet :
    is_frozen(slab, 0, ts) =>
      \A q \in Qtys, px \in Prices :
        LET r == process_reserve(slab, 1, 0, "Buy", q, px, 0)
        IN \A o \in TopLevels(slab, 0, "Sell", FREEZE_LEVELS) :
             r.slab.orders[o].reserved_qty = slab.orders[o].reserved_qty



(* ---------------------------------------------------------------------- *)
(* Batch open                                                              *)
(* ---------------------------------------------------------------------- *)

(* The members of L that are in keep, in the order of L. *)
RECURSIVE Restrict(_, _)
Restrict(L, keep) ==
  IF L = <<>> THEN <<>>
  ELSE IF Head(L) \in keep THEN <<Head(L)>> \o Restrict(Tail(L), keep)
  ELSE Restrict(Tail(L), keep)

(* An order without its list links. *)
Unlinked(o) == [o EXCEPT !.prev = INVALID_INDEX, !.next = INVALID_INDEX]

(* C15: a batch open that returns Ok raises the epoch by one, and in that  *)
(* one step every pending order of the instrument with eligible_epoch at   *)
(* most the new epoch is in the live list of its side with state LIVE and  *)
(* no longer pending, while the pending orders with a later eligible_epoch *)
(* are still the pending list of their side, in the same order and with    *)
(* the same content.                                                       *)
C15_BatchOpenPromotesEligible ==
  [][(ret'.op = "batch_open" /\ ret'.err = "Ok") =>
       LET new_epoch == slab'.header.current_epoch IN
       /\ new_epoch = slab.header.current_epoch + 1
       /\ \A side \in Sides :
            LET P == BookList(slab, 0, "PENDING", side)
                late == {o \in Members(P) : slab.orders[o].eligible_epoch > new_epoch}
            IN /\ BookList(slab', 0, "PENDING", side) = Restrict(P, late)
               /\ \A o \in Members(P) :
                    IF o \in late
                    THEN Unlinked(slab'.orders[o]) = Unlinked(slab.orders[o])
                    ELSE /\ o \in Members(BookList(slab', 0, "LIVE", side))
                         /\ slab'.orders[o].used
                         /\ slab'.orders[o].state = "LIVE"
                         /\ slab'.orders[o].order_id = slab.orders[o].order_id
     ]_vars

(* A batch open has just promoted one pending order and kept another. *)
C15_Witness ==
  /\ ret.op = "batch_open" /\ ret.err = "Ok"
  /\ \E o \in OrderIdx, p \in OrderIdx :
       /\ slab.orders[o].used /\ slab.orders[o].state = "LIVE"
       /\ slab.orders[o].eligible_epoch = slab.header.current_epoch
       /\ slab.orders[p].used /\ slab.orders[p].state = "PENDING"
       /\ slab.orders[p].eligible_epoch > slab.header.current_epoch
       /\ p \in Members(BookList(slab, 0, "PENDING", slab.orders[p].side))



(* C16: once a batch open of the instrument has returned Ok at time t      *)
(* (last_batch_open_ts = batch_open_ms = t), a batch open of it at any     *)
(* time before t + batch_ms returns BatchNotOpen and leaves the shard as   *)
(* it was.                                                                 *)
C16_EarlyBatchOpenRejected ==
  \A i \in InstrIdx :
    (/\ get_instrument(slab, i)
     /\ slab.instruments[i].epoch > 0
     /\ slab.instruments[i].batch_open_ms = slab.header.last_batch_open_ts) =>
      \A ts \in 0 .. (slab.header.last_batch_open_ts + BATCH_MS - 1) :
        LET r == process_batch_open(slab, i, ts)
        IN r.err = "BatchNotOpen" /\ r.slab = slab

(* A batch open has succeeded and a second one has come too early. *)
C16_Witness ==
  /\ ret.op = "batch_open" /\ ret.err = "BatchNotOpen"
  /\ slab.header.current_epoch > 0
  /\ slab.header.last_batch_open_ts > 0



(* ---------------------------------------------------------------------- *)
(* Reserve walk and commit fills                                           *)
(* ---------------------------------------------------------------------- *)

(* What a Buy walk for `remaining` within limit_px is to take from the     *)
(* asks L (head first) of s: <<[order_idx, qty]>>.                         *)
RECURSIVE ExpectedTakes(_, _, _, _)
ExpectedTakes(s, L, remaining, limit_px) ==
  IF L = <<>> \/ remaining = 0 THEN <<>>
  ELSE LET o == s.orders[Head(L)]
           available == o.qty - o.reserved_qty
           take == Min(available, remaining)
       IN IF o.price > limit_px THEN <<>>
          ELSE IF available <= 0 THEN ExpectedTakes(s, Tail(L), remaining, limit_px)
          ELSE <<[order_idx |-> Head(L), qty |-> take]>>
               \o ExpectedTakes(s, Tail(L), remaining - take, limit_px)

(* The slices of a chain, head first, as <<[order_idx, qty]>>. *)
RECURSIVE ChainTakes(_, _, _)
ChainTakes(s, slice_idx, fuel) ==
  IF slice_idx \notin SliceIdx \/ fuel = 0 \/ ~get_slice(s, slice_idx) THEN <<>>
  ELSE <<[order_idx |-> s.slices[slice_idx].order_idx, qty |-> s.slices[slice_idx].qty]>>
       \o ChainTakes(s, s.slices[slice_idx].next, fuel - 1)

RECURSIVE TakesQty(_)
TakesQty(W) == IF W = <<>> THEN 0 ELSE Head(W).qty + TakesQty(Tail(W))

RECURSIVE TakesNotional(_, _)
TakesNotional(s, W) ==
  IF W = <<>> THEN 0
  ELSE Head(W).qty * s.orders[Head(W).order_idx].price + TakesNotional(s, Tail(W))

(* The reserve r of s holds exactly the takes W. *)
ReservedAsWalked(s, r, W) ==
  LET held == {i \in ReservationIdx : /\ r.slab.reservations[i].used
                                       /\ r.slab.reservations[i].hold_id = r.hold_id}
  IN /\ W # <<>>
     /\ r.filled_qty = TakesQty(W)
     /\ r.vwap_px = TakesNotional(s, W) \div TakesQty(W)
     /\ r.worst_px = s.orders[W[Len(W)].order_idx].price
     /\ Cardinality(held) = 1
     /\ \A i \in held :
          /\ r.slab.reservations[i].qty = TakesQty(W)
          /\ ChainTakes(r.slab, r.slab.reservations[i].slice_head, NSlices + 1) = W
     /\ \A k \in 1 .. Len(W) :
          r.slab.orders[W[k].order_idx].reserved_qty =
            s.orders[W[k].order_idx].reserved_qty + W[k].qty

(* The commit c of the takes W reserved on s has filled exactly W. *)
FilledAsReserved(s, c, W) ==
  /\ c.filled_qty = TakesQty(W)
  /\ \A k \in 1 .. Len(W) :
       LET o == W[k].order_idx
           tr == c.slab.trades[(s.header.trade_write_idx + k - 1) % NTrades]
       IN /\ IF s.orders[o].qty = W[k].qty
             THEN /\ ~c.slab.orders[o].used
                  /\ o \notin Members(BookList(c.slab, 0, "LIVE", "Sell"))
             ELSE /\ c.slab.orders[o].used
                  /\ c.slab.orders[o].qty = s.orders[o].qty - W[k].qty
                  /\ c.slab.orders[o].reserved_qty = s.orders[o].reserved_qty
                  /\ o \in Members(BookList(c.slab, 0, "LIVE", "Sell"))
          /\ tr.price = s.orders[o].price
          /\ tr.qty = W[k].qty
  /\ c.slab.header.trade_write_idx = s.header.trade_write_idx + Len(W)
  /\ \A o \in OrderIdx \ {W[k].order_idx : k \in 1 .. Len(W)} :
       Unlinked(c.slab.orders[o]) = Unlinked(s.orders[o])

(* The book of the example: ask 0 of 10 at 100, then ask 1 of 20 at 101,   *)
(* nothing reserved.                                                       *)
ExampleBook(s) ==
  /\ BookList(s, 0, "LIVE", "Sell") = <<0, 1>>
  /\ s.orders[0].price = 100 /\ s.orders[0].qty = 10 /\ s.orders[0].reserved_qty = 0
  /\ s.orders[1].price = 101 /\ s.orders[1].qty = 20 /\ s.orders[1].reserved_qty = 0

(* C17: a reserve that returns Ok has walked the contra list from the head *)
(* taking min(available, remaining) from each order within the limit, and  *)
(* the commit of that hold, when it returns Ok, fills exactly those        *)
(* slices: each maker is reduced by its slice, removed and freed when it   *)
(* reaches zero, its reserved_qty back where it was, one trade a slice.    *)
(* On the asks {100, 10}, {101, 20}, Buy 25 at limit 102 reserves          *)
(* (ord0, 10) + (ord1, 15), filled_qty 25, vwap (100*10 + 101*15) / 25,    *)
(* worst_px 101; after the commit ord0 is freed and ord1 has qty 5,        *)
(* reserved 0.                                                             *)
C17_ReserveWalksCommitFills ==
  /\ \A q \in TakerQtys, px \in LimitSet :
       LET r == process_reserve(slab, 1, 0, "Buy", q, px, 0)
           W == ExpectedTakes(slab, BookList(slab, 0, "LIVE", "Sell"), q, px)
           c == process_commit(r.slab, r.hold_id, 1)
       IN r.err = "Ok" =>
            /\ ReservedAsWalked(slab, r, W)
            /\ c.err = "Ok" => FilledAsReserved(slab, c, W)
  /\ ExampleBook(slab) =>
       LET r == process_reserve(slab, 1, 0, "Buy", 25, 102, 0)
           c == process_commit(r.slab, r.hold_id, 1)
       IN (r.err = "Ok" /\ c.err = "Ok") =>
            /\ r.filled_qty = 25
            /\ r.vwap_px = (100 * 10 + 101 * 15) \div 25
            /\ r.worst_px = 101
            /\ ~c.slab.orders[0].used
            /\ c.slab.orders[1].used
            /\ c.slab.orders[1].qty = 5
            /\ c.slab.orders[1].reserved_qty = 0
            /\ BookList(c.slab, 0, "LIVE", "Sell") = <<1>>

(* The example has run: the commit of Buy 25 has returned Ok, ask 0 is     *)
(* freed, ask 1 rests with 5 of 20, and the trades are 10 at 100 and 15 at *)
(* 101.                                                                    *)
C17_Witness ==
  /\ ret.op = "commit" /\ ret.err = "Ok"
  /\ ~slab.orders[0].used
  /\ BookList(slab, 0, "LIVE", "Sell") = <<1>>
  /\ slab.orders[1].price = 101 /\ slab.orders[1].qty_orig = 20
  /\ slab.orders[1].qty = 5 /\ slab.orders[1].reserved_qty = 0
  /\ slab.header.trade_write_idx = 2
  /\ slab.trades[0].price = 100 /\ slab.trades[0].qty = 10
  /\ slab.trades[1].price = 101 /\ slab.trades[1].qty = 15



(* ---------------------------------------------------------------------- *)
(* Positions                                                               *)
(* ---------------------------------------------------------------------- *)

(* The position records in use of (account, instrument). *)
PositionsOf(s, a, i) ==
  {p \in PositionIdx : /\ s.positions[p].used
                        /\ s.positions[p].account_idx = a
                        /\ s.positions[p].instrument_idx = i}

(* C18: when the commit of a hold returns Ok and update_position finds    *)
(* the position of its account in the instrument, a fill opposite in sign  *)
(* to it and larger (a flip) leaves the position with                      *)
(* qty = old_qty + delta and the fill price as entry price, and a fill     *)
(* that only reduces it leaves qty = old_qty + delta with the old entry    *)
(* price.                                                                  *)
C18_FlipTakesFillPriceReduceKeepsEntry ==
  \A h \in HoldIds :
    \A ri \in {i \in LiveReservations(slab) : slab.reservations[i].hold_id = h} :
      LET resv == slab.reservations[ri]
          c == process_commit(slab, h, 1)
          delta == IF resv.side = "Buy" THEN c.filled_qty ELSE 0 - c.filled_qty
          f == find_position(slab, resv.account_idx, resv.instrument_idx)
          P == PositionsOf(slab, resv.account_idx, resv.instrument_idx)
          Q == PositionsOf(c.slab, resv.account_idx, resv.instrument_idx)
      IN (c.err = "Ok" /\ f.kind = "Some" /\ P = {f.idx}) =>
           LET old == slab.positions[f.idx]
               new_qty == old.qty + delta
           IN /\ (old.qty * new_qty < 0) =>
                   \E q \in Q : /\ Q = {q}
                                 /\ c.slab.positions[q].qty = new_qty
                                 /\ c.slab.positions[q].entry_px = c.vwap_px
              /\ (old.qty * delta < 0 /\ old.qty * new_qty > 0) =>
                   \E q \in Q : /\ Q = {q}
                                 /\ c.slab.positions[q].qty = new_qty
                                 /\ c.slab.positions[q].entry_px = old.entry_px



(* ---------------------------------------------------------------------- *)
(* Cancel by order                                                         *)
(* ---------------------------------------------------------------------- *)

(* The four lists of every instrument. *)
AllLists(s) ==
  [i \in InstrIdx |-> [st \in {"LIVE", "PENDING"} |-> [sd \in Sides |->
     IF get_instrument(s, i) THEN BookList(s, i, st, sd) ELSE <<>>]]]

(* The slices in use that reference order o. *)
SlicesOn(s, o) == {k \in SliceIdx : s.slices[k].used /\ s.slices[k].order_idx = o}

(* C19: a cancel-by-order of an order with reserved_qty > 0 either returns *)
(* Ok having removed only qty - reserved_qty (the order keeps its place in *)
(* its list, with qty = qty_orig = reserved_qty and nothing else changed)  *)
(* or returns an error and changes nothing; and whatever it returns, an    *)
(* order that a slice in use references stays in use, in its list, with    *)
(* its reserved_qty.                                                       *)
C19_CancelOrderKeepsReserved ==
  \A o \in OrderIdx, a \in AcctIdx :
    LET order == slab.orders[o]
        r == process_cancel_order(slab, o, a)
    IN /\ (order.used /\ order.reserved_qty > 0) =>
            IF r.err = "Ok"
            THEN /\ order.qty > order.reserved_qty
                 /\ r.slab.orders[o] = [order EXCEPT !.qty = order.reserved_qty,
                                                     !.qty_orig = order.reserved_qty]
                 /\ AllLists(r.slab) = AllLists(slab)
                 /\ \A p \in OrderIdx \ {o} : r.slab.orders[p] = slab.orders[p]
            ELSE r.slab = slab
       /\ \A p \in OrderIdx :
            (slab.orders[p].used /\ SlicesOn(slab, p) # {}) =>
              /\ r.slab.orders[p].used
              /\ r.slab.orders[p].reserved_qty = slab.orders[p].reserved_qty
              /\ p \in Members(BookList(r.slab, slab.orders[p].instrument_idx,
                                         slab.orders[p].state, slab.orders[p].side))

(* A cancel-by-order has just shrunk a partly reserved order: it returned  *)
(* Ok, no order has ever been freed, and an order that a slice references  *)
(* rests with qty = qty_orig = reserved_qty.                               *)
C19_Witness ==
  /\ ret.op = "cancel_order" /\ ret.err = "Ok"
  /\ slab.header.order_count = slab.header.next_order_id - 1
  /\ \E o \in OrderIdx :
       /\ slab.orders[o].used
       /\ slab.orders[o].reserved_qty > 0
       /\ slab.orders[o].qty = slab.orders[o].reserved_qty
       /\ slab.orders[o].qty_orig = slab.orders[o].reserved_qty
       /\ SlicesOn(slab, o) # {}
       /\ o \in Members(BookList(slab, 0, "LIVE", "Sell"))



(* ---------------------------------------------------------------------- *)
(* Leaks                                                                   *)
(* ---------------------------------------------------------------------- *)

(* The reservations in use whose chain holds slice k. *)
HoldersOf(s, k) == {i \in LiveReservations(s) : k \in Chain(s, i)}

(* C20: after every instruction, a reserve that returned PoolFull part-way *)
(* through the walk included, every slice in use is on the chain of        *)
(* exactly one reservation in use, and every order's reserved_qty is the   *)
(* sum of the slices on such chains that reference it.                     *)
C20_NoLeakedAllocations ==
  /\ \A k \in SliceIdx : slab.slices[k].used => Cardinality(HoldersOf(slab, k)) = 1
  /\ \A o \in UsedOrders(slab) :
       slab.orders[o].reserved_qty =
         SliceQtySum(slab, {k \in SlicesOn(slab, o) : HoldersOf(slab, k) # {}})

(* ---------------------------------------------------------------------- *)
(* Router: cross-program calls into the shards                             *)
(*                                                                         *)
(* `shards` are the slab accounts a router call is handed, `out` is the    *)
(* last router call with its arguments and result.  Instruction data is    *)
(* its first byte, its length in bytes, and the values its bytes encode.   *)
(* ---------------------------------------------------------------------- *)
NShards == 2
ShardIdx == 0 .. (NShards - 1)

slab_ix_RESERVE == 4
slab_ix_COMMIT == 5
slab_ix_CANCEL == 6
RESERVE_IX_DATA_SIZE == 73
COMMIT_IX_DATA_SIZE == 17
CANCEL_IX_DATA_SIZE == 9

(* Bytes the shard's handlers read after the discriminator. *)
RESERVE_LAYOUT == 71
COMMIT_LAYOUT == 16
CANCEL_LAYOUT == 8
INITIALIZE_LAYOUT == 136
ADD_INSTRUMENT_LAYOUT == 40
UPDATE_FUNDING_LAYOUT == 18

serialize_reserve_data(account_idx, instrument_idx, side, qty, limit_px, ttl_ms) ==
  [discriminator |-> slab_ix_RESERVE, size |-> RESERVE_IX_DATA_SIZE,
   args |-> <<account_idx, instrument_idx, side, qty, limit_px, ttl_ms>>]

serialize_commit_data(hold_id, current_ts) ==
  [discriminator |-> slab_ix_COMMIT, size |-> COMMIT_IX_DATA_SIZE,
   args |-> <<hold_id, current_ts>>]

serialize_cancel_data(hold_id) ==
  [discriminator |-> slab_ix_CANCEL, size |-> CANCEL_IX_DATA_SIZE, args |-> <<hold_id>>]

(* The Reserve instruction with the shard's own discriminator, 0. *)
build_reserve_cpi_data(account_idx, instrument_idx, side, qty, limit_px, ttl_ms) ==
  [discriminator |-> 0, size |-> 1 + RESERVE_LAYOUT,
   args |-> <<account_idx, instrument_idx, side, qty, limit_px, ttl_ms>>]

(* The shard's entrypoint: dispatch on the first byte, read the handler's  *)
(* layout from the rest (a read past the end fails before the handler      *)
(* runs), call the handler and drop its result.  No handler sets return    *)
(* data.  Initialize, AddInstrument and UpdateFunding are covered for the  *)
(* data that is too short for them, which is all the data sent here.       *)
process_instruction(s, data) ==
  LET body == data.size - 1
      a == data.args
      Short == [err |-> "InvalidInstruction", slab |-> s, return_data |-> <<>>]
      Done(r) == [err |-> r.err, slab |-> r.slab, return_data |-> <<>>]
  IN
  IF data.size = 0 THEN Short
  ELSE CASE data.discriminator = 0 ->
              IF body < RESERVE_LAYOUT THEN Short
              ELSE Done(process_reserve(s, a[1], a[2], a[3], a[4], a[5], a[6]))
         [] data.discriminator = 1 ->
              IF body < COMMIT_LAYOUT THEN Short
              ELSE Done(process_commit(s, a[1], a[2]))
         [] data.discriminator = 2 ->
              IF body < CANCEL_LAYOUT THEN Short
              ELSE Done(process_cancel(s, a[1]))
         [] data.discriminator = 4 /\ body < INITIALIZE_LAYOUT -> Short
         [] data.discriminator = 5 /\ body < ADD_INSTRUMENT_LAYOUT -> Short
         [] data.discriminator = 6 /\ body < UPDATE_FUNDING_LAYOUT -> Short
         [] data.discriminator > 7 -> Short

DefaultResponse == [hold_id |-> 0]

(* invoke, then the shard's return data parsed as the response. *)
CpiResult(r) ==
  IF r.err # "Ok" THEN [err |-> "CpiError", slab |-> r.slab, response |-> DefaultResponse]
  ELSE IF r.return_data = <<>>
  THEN [err |-> "CpiError", slab |-> r.slab, response |-> DefaultResponse]
  ELSE [err |-> "Ok", slab |-> r.slab, response |-> r.return_data]

cpi_reserve(s, p) ==
  CpiResult(process_instruction(s,
    serialize_reserve_data(p.account_idx, p.instrument_idx, p.side, p.qty,
                           p.limit_px, p.ttl_ms)))

cpi_commit(s, hold_id, current_ts) ==
  CpiResult(process_instruction(s, serialize_commit_data(hold_id, current_ts)))

(* invoke alone: cancel has no response. *)
InvokeResult(r) == [err |-> IF r.err # "Ok" THEN "CpiError" ELSE "Ok", slab |-> r.slab]

cpi_cancel(s, hold_id) ==
  InvokeResult(process_instruction(s, serialize_cancel_data(hold_id)))

(* for j in from..to-1 { let _ = cpi_cancel(slab_states[j], responses[j].hold_id) } *)
RECURSIVE CancelEach(_, _, _, _)
CancelEach(sh, responses, j, to) ==
  IF j >= to THEN sh
  ELSE CancelEach([sh EXCEPT ![j] = cpi_cancel(sh[j], responses[j].hold_id).slab],
                  responses, j + 1, to)

(* The loop of atomic_multi_reserve from shard i on; ReserveArm is its     *)
(* match on the result r of shard i's cpi_reserve.                         *)
RECURSIVE ReserveEach(_, _, _, _)
ReserveArm(sh, params, i, result, r) ==
  IF r.err = "Ok"
  THEN ReserveEach([sh EXCEPT ![i] = r.slab], params, i + 1,
                   [count |-> result.count + 1,
                    responses |-> [result.responses EXCEPT ![i] = r.response]])
  ELSE [err |-> r.err,
        shards |-> CancelEach([sh EXCEPT ![i] = r.slab], result.responses, 0, result.count),
        count |-> result.count, responses |-> result.responses]

ReserveEach(sh, params, i, result) ==
  IF i = Len(params)
  THEN [err |-> "Ok", shards |-> sh, count |-> result.count, responses |-> result.responses]
  ELSE ReserveArm(sh, params, i, result, cpi_reserve(sh[i], params[i + 1]))

(* params is the sequence of ReserveParams, params[i + 1] for shard i. *)
atomic_multi_reserve(sh, params) ==
  IF Len(params) = 0
  THEN [err |-> "InvalidInstruction", shards |-> sh, count |-> 0,
        responses |-> [k \in ShardIdx |-> DefaultResponse]]
  ELSE ReserveEach(sh, params, 0,
                   [count |-> 0, responses |-> [k \in ShardIdx |-> DefaultResponse]])

(* The loop of atomic_multi_commit from shard i on; CommitArm is its match *)
(* on the result r of shard i's cpi_commit.                                *)
RECURSIVE CommitEach(_, _, _, _, _)
CommitArm(sh, reserve_result, current_ts, i, count, r) ==
  IF r.err = "Ok"
  THEN CommitEach([sh EXCEPT ![i] = r.slab], reserve_result, current_ts, i + 1, count + 1)
  ELSE [err |-> r.err,
        shards |-> CancelEach([sh EXCEPT ![i] = r.slab], reserve_result.responses,
                              i + 1, reserve_result.count),
        count |-> count]

CommitEach(sh, reserve_result, current_ts, i, count) ==
  IF i = reserve_result.count THEN [err |-> "Ok", shards |-> sh, count |-> count]
  ELSE CommitArm(sh, reserve_result, current_ts, i, count,
                 cpi_commit(sh[i], reserve_result.responses[i].hold_id, current_ts))

atomic_multi_commit(sh, reserve_result, current_ts) ==
  CommitEach(sh, reserve_result, current_ts, 0, 0)

(* -- the router's state machine -- *)
MaxShardOps == 4

(* The instructions the shards 0 .. k have taken since their instrument   *)
(* was added.                                                              *)
RECURSIVE ShardOps(_)
ShardOps(k) == IF k < 0 THEN 0 ELSE ShardOps(k - 1) + shards[k].header.seqno - 1

(* Shard instructions are issued while fewer than MaxShardOps were taken. *)
ShardBudget == ShardOps(NShards - 1) < MaxShardOps

(* A call on the shards: its result r replaces them and is kept in out.    *)
RouterCall(call, args, r) ==
  /\ shards' = r.shards
  /\ out' = [call |-> call, args |-> args, err |-> r.err, count |-> r.count]
  /\ UNCHANGED <<slab, ret, hist, router, insurance>>

ShardCall(call, k, r) ==
  /\ shards' = [shards EXCEPT ![k] = r.slab]
  /\ out' = [call |-> call, shard |-> k, err |-> r.err]
  /\ UNCHANGED <<slab, ret, hist, router, insurance>>

InitRouter ==
  /\ InitShard
  /\ insurance = <<>>
  /\ shards = [k \in ShardIdx |-> ShardWith(1, 100)]
  /\ out = [call |-> "none"]
  /\ router = <<>>

(* A maker rests an ask of 2 at 100 on shard k. *)
ShardPlaceOrderIn(k) ==
  /\ ShardBudget
  /\ ShardCall("place_order", k, place_order(shards[k], 0, 0, "Sell", "LIVE", 100, 2, 0))

(* A taker sends Reserve to shard k itself. *)
ShardReserveIn(k) ==
  /\ ShardBudget
  /\ shards[k].header.next_hold_id <= MaxHoldId
  /\ \E q \in Qtys :
       ShardCall("reserve", k,
                 process_instruction(shards[k], build_reserve_cpi_data(1, 0, "Buy", q, 100, 0)))

ReserveParamsOf(q) ==
  [account_idx |-> 1, instrument_idx |-> 0, side |-> "Buy", qty |-> q,
   limit_px |-> 100, ttl_ms |-> 0]

AtomicMultiReserveIn ==
  /\ ShardBudget
  /\ \E n \in 1 .. NShards :
       LET params == [i \in 1 .. n |-> ReserveParamsOf(1)] IN
       RouterCall("atomic_multi_reserve", params, atomic_multi_reserve(shards, params))

AtomicMultiCommitIn ==
  /\ ShardBudget
  /\ \E n \in 1 .. NShards :
       LET reserve_result == [count |-> n,
                              responses |-> [k \in ShardIdx |-> [hold_id |-> 1]]]
       IN
       RouterCall("atomic_multi_commit", [reserve_result |-> reserve_result, current_ts |-> 1],
                  atomic_multi_commit(shards, reserve_result, 1))

NextRouter ==
  \/ \E k \in ShardIdx : ShardPlaceOrderIn(k)
  \/ \E k \in ShardIdx : ShardReserveIn(k)
  \/ AtomicMultiReserveIn
  \/ AtomicMultiCommitIn

SpecRouter == InitRouter /\ [][NextRouter]_vars

(* ---------------------------------------------------------------------- *)
(* Multi-shard reserve and commit                                          *)
(* ---------------------------------------------------------------------- *)

(* The hold ids of the reservations in use on a shard. *)
HeldOn(s) == {s.reservations[i].hold_id : i \in LiveReservations(s)}

C22_FailedCommitCancelsRest ==
  [][out'.call = "atomic_multi_commit" /\ out'.err # "Ok" =>
       LET reserve_result == out'.args.reserve_result
           k == out'.count
       IN
       \A j \in (k + 1) .. (reserve_result.count - 1) :
         reserve_result.responses[j].hold_id \notin HeldOn(shards'[j])]_vars

(* ---------------------------------------------------------------------- *)
(* Router: the multi-slab coordinator                                      *)
(*                                                                         *)
(* `router` is the vault and the user's portfolio.  The portfolio's        *)
(* exposures are a quantity per (slab_idx, instrument_idx), 0 where the    *)
(* list has no entry.  Amounts are in the program's 1e6 scale.             *)
(* ---------------------------------------------------------------------- *)
MAX_SLABS_PER_ORDER == 8
MIN_RESERVE_TTL_MS == 5000
MAX_RESERVE_TTL_MS == 120000
IM_NUMERATOR == 10
IM_DENOMINATOR == 100000000

ExposureKeys == ShardIdx \X InstrIdx

RECURSIVE ExposureSum(_, _)
ExposureSum(exposures, keys) ==
  IF keys = {} THEN 0
  ELSE LET k == CHOOSE x \in keys : TRUE
       IN exposures[k] + ExposureSum(exposures, keys \ {k})

get_exposure(portfolio, slab_idx, instrument_idx) ==
  portfolio.exposures[<<slab_idx, instrument_idx>>]

update_exposure(portfolio, slab_idx, instrument_idx, qty) ==
  [portfolio EXCEPT !.exposures[<<slab_idx, instrument_idx>>] = qty]

update_margin(portfolio, im, mm) == [portfolio EXCEPT !.im = im, !.mm = mm]

has_sufficient_margin(portfolio) == portfolio.equity >= portfolio.im

Clamp(x, lo, hi) == IF x < lo THEN lo ELSE IF x > hi THEN hi ELSE x

simulate_reserve(split, ttl_ms) ==
  [hold_id |-> 1, vwap_px |-> split.limit_px, worst_px |-> split.limit_px,
   filled_qty |-> split.qty,
   max_charge |-> (mul_u64(split.qty, split.limit_px) * 101) \div 100,
   expiry_ms |-> ttl_ms, book_seqno |-> 1]

(* Variant: the shard's commit reports no fee. *)
simulate_commit_no_fee(resv, current_ts) ==
  [filled_qty |-> resv.filled_qty, vwap_px |-> resv.vwap_px,
   notional |-> mul_u64(resv.filled_qty, resv.vwap_px), fees |-> 0]

simulate_commit(resv, current_ts) ==
  [filled_qty |-> resv.filled_qty, vwap_px |-> resv.vwap_px,
   notional |-> mul_u64(resv.filled_qty, resv.vwap_px),
   fees |-> mul_u64(resv.filled_qty, resv.vwap_px) \div 100]

RECURSIVE SplitQtySum(_, _)
SplitQtySum(splits, i) ==
  IF i = 0 THEN 0
  ELSE SplitQtySum(splits, i - 1)
       + (IF splits[i].side = 0 THEN splits[i].qty ELSE 0 - splits[i].qty)

calculate_net_exposure_from_portfolio(portfolio) ==
  ExposureSum(portfolio.exposures, ExposureKeys)

calculate_net_exposure_with_order(portfolio, splits) ==
  ExposureSum(portfolio.exposures, ExposureKeys) + SplitQtySum(splits, Len(splits))

calculate_portfolio_im(net_exposure, price) ==
  (Abs(net_exposure) * price * IM_NUMERATOR) \div IM_DENOMINATOR

DefaultMultiSlabResult ==
  [slab_count |-> 0, reservations |-> <<>>, total_filled_qty |-> 0, aggregate_vwap |-> 0,
   total_notional |-> 0, total_fees |-> 0, net_exposure |-> 0, im_required |-> 0,
   success |-> FALSE]

(* The reservation loop of process_multi_slab_reserve over splits 1 .. i. *)
RECURSIVE ReserveSplits(_, _, _)
ReserveSplits(splits, ttl, i) ==
  IF i = 0 THEN [DefaultMultiSlabResult EXCEPT !.slab_count = Len(splits)]
  ELSE LET result == ReserveSplits(splits, ttl, i - 1)
           resv == simulate_reserve(splits[i], ttl)
       IN [result EXCEPT !.reservations = Append(@, resv),
                         !.total_filled_qty = @ + resv.filled_qty,
                         !.total_notional = @ + resv.max_charge]

AggregateVwap(result) ==
  IF result.total_filled_qty > 0
  THEN [result EXCEPT !.aggregate_vwap = result.total_notional \div result.total_filled_qty]
  ELSE result

ReserveFinish(portfolio, splits, result) ==
  [err |-> "Ok",
   result |-> [result EXCEPT
                 !.net_exposure = calculate_net_exposure_with_order(portfolio, splits),
                 !.im_required =
                    calculate_portfolio_im(calculate_net_exposure_with_order(portfolio, splits),
                                           result.aggregate_vwap),
                 !.success = TRUE]]

MultiSlabErr(e) == [err |-> e, result |-> DefaultMultiSlabResult]

(* registered: the slab programs the registry knows; a split names its     *)
(* slab by slab_program_id.                                                 *)
process_multi_slab_reserve(portfolio, user, registered, splits, ttl_ms) ==
  IF Len(splits) = 0 \/ Len(splits) > MAX_SLABS_PER_ORDER THEN MultiSlabErr("InvalidInstruction")
  ELSE IF portfolio.user # user THEN MultiSlabErr("InvalidPortfolio")
  ELSE IF \E i \in 1 .. Len(splits) : splits[i].slab_program_id \notin registered
  THEN MultiSlabErr("SlabNotRegistered")
  ELSE ReserveFinish(portfolio, splits,
         AggregateVwap(ReserveSplits(splits,
                                     Clamp(ttl_ms, MIN_RESERVE_TTL_MS, MAX_RESERVE_TTL_MS),
                                     Len(splits))))

(* Variant: only the first reservation is tested for expiry. *)
AnyExpired_first_only(reservations, current_ts) ==
  current_ts > reservations[1].expiry_ms /\ reservations[1].expiry_ms > 0

(* The expiry loop of process_multi_slab_commit. *)
AnyExpired(reservations, current_ts) ==
  \E i \in 1 .. Len(reservations) :
    current_ts > reservations[i].expiry_ms /\ reservations[i].expiry_ms > 0

(* The commit loop of process_multi_slab_commit over reservations 1 .. i;  *)
(* total_debit is carried with the result.                                  *)
RECURSIVE CommitReservations(_, _, _)
CommitReservations(reservations, current_ts, i) ==
  IF i = 0
  THEN [result |-> [DefaultMultiSlabResult EXCEPT !.slab_count = Len(reservations)],
        total_debit |-> 0]
  ELSE LET acc == CommitReservations(reservations, current_ts, i - 1)
           commit_result == simulate_commit(reservations[i], current_ts)
       IN [result |-> [acc.result EXCEPT
                         !.reservations = Append(@, reservations[i]),
                         !.total_filled_qty = @ + commit_result.filled_qty,
                         !.total_notional = @ + commit_result.notional,
                         !.total_fees = @ + commit_result.fees],
           total_debit |-> acc.total_debit + commit_result.notional + commit_result.fees]

(* The exposure loop of process_multi_slab_commit over splits 1 .. i; the  *)
(* slab_idx of split i is its place in the list.                            *)
RECURSIVE UpdateExposures(_, _, _, _)
UpdateExposures(portfolio, reservations, splits, i) ==
  IF i = 0 THEN portfolio
  ELSE LET p == UpdateExposures(portfolio, reservations, splits, i - 1)
           slab_idx == i - 1
           instrument_idx == splits[i].instrument_idx
           filled_qty == reservations[i].filled_qty
           current_exposure == get_exposure(p, slab_idx, instrument_idx)
           new_exposure == IF splits[i].side = 0 THEN current_exposure + filled_qty
                           ELSE current_exposure - filled_qty
       IN update_exposure(p, slab_idx, instrument_idx, new_exposure)

(* process_multi_slab_commit from the margin update on. *)
CommitMargin(vault, portfolio, result) ==
  [err |-> IF has_sufficient_margin(portfolio) THEN "Ok" ELSE "PortfolioInsufficientMargin",
   vault |-> vault, portfolio |-> portfolio,
   result |-> IF has_sufficient_margin(portfolio) THEN [result EXCEPT !.success = TRUE]
              ELSE DefaultMultiSlabResult]

CommitExposed(vault, portfolio, result) ==
  CommitMargin(vault,
               update_margin(portfolio,
                 calculate_portfolio_im(calculate_net_exposure_from_portfolio(portfolio),
                                        result.aggregate_vwap),
                 calculate_portfolio_im(calculate_net_exposure_from_portfolio(portfolio),
                                        result.aggregate_vwap) \div 2),
               [result EXCEPT
                  !.net_exposure = calculate_net_exposure_from_portfolio(portfolio),
                  !.im_required =
                     calculate_portfolio_im(calculate_net_exposure_from_portfolio(portfolio),
                                            result.aggregate_vwap)])

(* process_multi_slab_commit from the vault debit on. *)
CommitDebit(vault, portfolio, reservations, splits, c) ==
  IF vault.balance < c.total_debit
  THEN [err |-> "InsufficientBalance", vault |-> vault, portfolio |-> portfolio,
        result |-> DefaultMultiSlabResult]
  ELSE CommitExposed([vault EXCEPT !.balance = @ - c.total_debit],
                     UpdateExposures(portfolio, reservations, splits, Len(splits)),
                     AggregateVwap(c.result))

CommitRefused(e, vault, portfolio) ==
  [err |-> e, vault |-> vault, portfolio |-> portfolio, result |-> DefaultMultiSlabResult]

(* splits are as many as reservations. *)
process_multi_slab_commit(portfolio, user, vault, reservations, splits, current_ts) ==
  IF Len(reservations) = 0 \/ Len(reservations) > MAX_SLABS_PER_ORDER
  THEN CommitRefused("InvalidInstruction", vault, portfolio)
  ELSE IF portfolio.user # user THEN CommitRefused("InvalidPortfolio", vault, portfolio)
  ELSE IF AnyExpired(reservations, current_ts)
  THEN CommitRefused("ReservationExpired", vault, portfolio)
  ELSE CommitDebit(vault, portfolio, reservations, splits,
                   CommitReservations(reservations, current_ts, Len(reservations)))

(* -- the coordinator's state machine: one order of one side, split over  *)
(* the first n shards -- *)
Users == {0, 1}
SplitQtys == {100, 200}
EquitySet == {0, 1}
VaultSet == {0, 20200000}
TtlMsSet == {0, 200000}
ExpirySet == {0, MIN_RESERVE_TTL_MS}
CommitTsSet == {MIN_RESERVE_TTL_MS - 1000, MIN_RESERVE_TTL_MS + 1000}

(* The limit price of the split sent to shard k: 100_000, 90_000, ... *)
LimitOf(k) == 100000 - 10000 * k

SplitOf(k, side, qty) ==
  [slab_program_id |-> k, instrument_idx |-> 0, side |-> side, qty |-> qty,
   limit_px |-> LimitOf(k)]

(* The reservation a shard hands back for a split, its expiry as given. *)
ReservationOf(split, expiry_ms) == [simulate_reserve(split, expiry_ms) EXCEPT !.expiry_ms = expiry_ms]

InitMulti ==
  /\ InitShard
  /\ insurance = <<>>
  /\ shards = <<>>
  /\ out = [call |-> "none"]
  /\ \E balance \in VaultSet, equity \in EquitySet :
       router = [vault |-> [balance |-> balance],
                 portfolio |-> [user |-> 0, equity |-> equity, im |-> 0, mm |-> 0,
                                exposures |-> [k \in ExposureKeys |-> 0]]]

MultiSlabReserveIn ==
  /\ \E n \in 1 .. NShards, user \in Users, ttl_ms \in TtlMsSet, side \in {0, 1} :
     \E qty \in [1 .. n -> SplitQtys] :
       LET splits == [i \in 1 .. n |-> SplitOf(i - 1, side, qty[i])]
           r == process_multi_slab_reserve(router.portfolio, user, ShardIdx, splits, ttl_ms)
       IN out' = [call |-> "process_multi_slab_reserve",
                  args |-> [user |-> user, splits |-> splits, ttl_ms |-> ttl_ms],
                  err |-> r.err, result |-> r.result]
  /\ UNCHANGED <<slab, ret, hist, shards, router, insurance>>

MultiSlabCommitIn ==
  /\ \E n \in 1 .. NShards, user \in {0}, current_ts \in CommitTsSet, side \in {0, 1} :
     \E expiry \in [1 .. n -> ExpirySet] :
       LET splits == [i \in 1 .. n |-> SplitOf(i - 1, side, 100)]
           reservations == [i \in 1 .. n |-> ReservationOf(splits[i], expiry[i])]
           r == process_multi_slab_commit(router.portfolio, user, router.vault,
                                          reservations, splits, current_ts)
       IN /\ router' = [vault |-> r.vault, portfolio |-> r.portfolio]
          /\ out' = [call |-> "process_multi_slab_commit",
                     args |-> [user |-> user, reservations |-> reservations,
                               splits |-> splits, current_ts |-> current_ts],
                     err |-> r.err, result |-> r.result]
  /\ UNCHANGED <<slab, ret, hist, shards, insurance>>

NextMulti ==
  \/ MultiSlabReserveIn
  \/ MultiSlabCommitIn

SpecMulti == InitMulti /\ [][NextMulti]_vars

(* ---------------------------------------------------------------------- *)
(* The coordinator's commit and reserve                                    *)
(* ---------------------------------------------------------------------- *)

(* The last call was process_multi_slab_commit by the portfolio's user. *)
CommitCalled(o, r) ==
  /\ o.call = "process_multi_slab_commit"
  /\ o.args.user = r.portfolio.user

(* Reservation i of the call is past its expiry. *)
PastExpiry(args, i) == args.current_ts > args.reservations[i].expiry_ms

RECURSIVE ChargedSum(_, _)
ChargedSum(reservations, i) ==
  IF i = 0 THEN 0
  ELSE ChargedSum(reservations, i - 1)
       + reservations[i].filled_qty * reservations[i].vwap_px
       + (reservations[i].filled_qty * reservations[i].vwap_px) \div 100

RECURSIVE NotionalSum(_, _)
NotionalSum(reservations, i) ==
  IF i = 0 THEN 0
  ELSE NotionalSum(reservations, i - 1)
       + reservations[i].filled_qty * reservations[i].vwap_px

RECURSIVE FilledSum(_, _)
FilledSum(reservations, i) ==
  IF i = 0 THEN 0 ELSE FilledSum(reservations, i - 1) + reservations[i].filled_qty

(* The exposure on (slab_idx, instrument_idx) after the splits were filled. *)
ExposedAfter(before, args, key) ==
  IF \E i \in 1 .. Len(args.splits) : key = <<i - 1, args.splits[i].instrument_idx>>
  THEN LET i == key[1] + 1
       IN IF args.splits[i].side = 0
          THEN before[key] + args.reservations[i].filled_qty
          ELSE before[key] - args.reservations[i].filled_qty
  ELSE before[key]

(* C24: a multi-shard commit that is not refused (no reservation expired,  *)
(* the vault covers the debit) takes exactly the sum of notional + fees    *)
(* from the vault and moves each shard's exposure by the filled quantity;  *)
(* the initial margin is recomputed on the net exposure, and the call      *)
(* returns PortfolioInsufficientMargin exactly when equity is below it,    *)
(* with the debit and the exposures in place.                              *)
C24_CommitDebitsThenChecksMargin ==
  [][CommitCalled(out', router)
     /\ out'.err \notin {"ReservationExpired", "InsufficientBalance"}
     => LET args == out'.args
            n == Len(args.reservations)
            net == ExposureSum(router'.portfolio.exposures, ExposureKeys)
            vwap == IF FilledSum(args.reservations, n) > 0
                    THEN NotionalSum(args.reservations, n) \div FilledSum(args.reservations, n)
                    ELSE 0
        IN /\ router'.vault.balance = router.vault.balance - ChargedSum(args.reservations, n)
           /\ \A key \in ExposureKeys :
                router'.portfolio.exposures[key]
                  = ExposedAfter(router.portfolio.exposures, args, key)
           /\ router'.portfolio.im = (Abs(net) * vwap * 10) \div 100000000
           /\ router'.portfolio.equity = router.portfolio.equity
           /\ out'.err = IF router'.portfolio.equity < router'.portfolio.im
                         THEN "PortfolioInsufficientMargin" ELSE "Ok"]_vars

(* A commit over two shards returned PortfolioInsufficientMargin after the *)
(* vault was debited and both exposures moved.                              *)
C24_Witness ==
  /\ CommitCalled(out, router)
  /\ out.err = "PortfolioInsufficientMargin"
  /\ Len(out.args.reservations) = 2
  /\ router.portfolio.equity < router.portfolio.im
  /\ router.portfolio.exposures[<<0, 0>>] # 0
  /\ router.portfolio.exposures[<<1, 0>>] # 0
  /\ router.vault.balance + ChargedSum(out.args.reservations, 2) \in VaultSet

(* C25: the aggregate VWAP a multi-shard reserve returns is the sum over   *)
(* its reservations of filled_qty * vwap_px divided by the total filled    *)
(* quantity; no fee is part of it.                                          *)
C25_AggregateVwapIsFillWeighted ==
  [][out'.call = "process_multi_slab_reserve" /\ out'.err = "Ok"
     => LET reservations == out'.result.reservations
            n == Len(reservations)
        IN /\ out'.result.total_filled_qty = FilledSum(reservations, n)
           /\ FilledSum(reservations, n) > 0
                => out'.result.aggregate_vwap
                     = NotionalSum(reservations, n) \div FilledSum(reservations, n)]_vars

(* ---------------------------------------------------------------------- *)
(* Router: portfolio margin                                                *)
(*                                                                         *)
(* The program keeps quantities, prices and contract sizes in fixed point  *)
(* with six decimals (1_000_000 is one unit, 10^12 the product of two).    *)
(* The model keeps them with SCALE to the unit instead, so that every      *)
(* product of three of them is an integer TLC can hold; each formula is    *)
(* the program's with 1_000_000 read as SCALE.                             *)
(* ---------------------------------------------------------------------- *)
DEFAULT_IMR_BPS == 1000
DEFAULT_MMR_BPS == 500
MAX_CORRELATION_BENEFIT_BPS == 5000
MIN_CORRELATION_THRESHOLD == 500
GROUP_COUNT == 16

DefaultRiskParams ==
  [slab_idx |-> 0, instrument_idx |-> 0, imr_bps |-> DEFAULT_IMR_BPS,
   mmr_bps |-> DEFAULT_MMR_BPS, contract_size |-> SCALE, mark_price |-> 0,
   risk_weight |-> 100]

(* risk_params.iter().find(..): the first entry of the instrument, if any. *)
FindParams(risk_params, slab_idx, instrument_idx) ==
  LET hits == {i \in 1 .. Len(risk_params) :
                 /\ risk_params[i].slab_idx = slab_idx
                 /\ risk_params[i].instrument_idx = instrument_idx}
  IN IF hits = {} THEN [found |-> FALSE, params |-> DefaultRiskParams]
     ELSE [found |-> TRUE,
           params |-> risk_params[CHOOSE i \in hits : \A j \in hits : i <= j]]

(* Step 1 of calculate_portfolio_margin over the exposures at keys: an     *)
(* exposure of 0 or of an instrument whose mark price is 0 (the default    *)
(* when it has no risk params) is skipped.                                  *)
RECURSIVE GrossMargins(_, _, _)
GrossMargins(portfolio, risk_params, keys) ==
  IF keys = {}
  THEN [gross_im |-> 0, gross_mm |-> 0, total_notional |-> 0, position_count |-> 0]
  ELSE
    LET key == CHOOSE x \in keys : TRUE
        rest == GrossMargins(portfolio, risk_params, keys \ {key})
        qty == portfolio.exposures[key]
        params == FindParams(risk_params, key[1], key[2]).params
        notional == (Abs(qty) * params.mark_price * params.contract_size) \div (SCALE * SCALE)
    IN IF qty = 0 \/ params.mark_price = 0 THEN rest
       ELSE [gross_im |-> rest.gross_im + (notional * params.imr_bps) \div 10000,
             gross_mm |-> rest.gross_mm + (notional * params.mmr_bps) \div 10000,
             total_notional |-> rest.total_notional + notional,
             position_count |-> rest.position_count + 1]

DefaultPositionDelta ==
  [underlying_id |-> 0, net_delta |-> 0, long_notional |-> 0, short_notional |-> 0,
   risk_weight |-> 0]

(* The totals of calculate_net_exposure_groups over the exposures at keys. *)
RECURSIVE ExposureTotals(_, _, _)
ExposureTotals(portfolio, risk_params, keys) ==
  IF keys = {}
  THEN [total_long |-> 0, total_short |-> 0, total_long_notional |-> 0,
        total_short_notional |-> 0]
  ELSE
    LET key == CHOOSE x \in keys : TRUE
        rest == ExposureTotals(portfolio, risk_params, keys \ {key})
        qty == portfolio.exposures[key]
        params == FindParams(risk_params, key[1], key[2]).params
        notional == (Abs(qty) * params.mark_price) \div SCALE
    IN IF qty = 0 THEN rest
       ELSE IF qty > 0
       THEN [rest EXCEPT !.total_long = @ + qty, !.total_long_notional = @ + notional]
       ELSE [rest EXCEPT !.total_short = @ + (0 - qty), !.total_short_notional = @ + notional]

(* All instruments are one group, groups[0]; groups 1 .. 15 stay default. *)
calculate_net_exposure_groups(portfolio, risk_params) ==
  LET t == ExposureTotals(portfolio, risk_params, ExposureKeys) IN
  [g \in 0 .. (GROUP_COUNT - 1) |->
     IF g = 0
     THEN [underlying_id |-> 0, net_delta |-> t.total_long - t.total_short,
           long_notional |-> t.total_long_notional,
           short_notional |-> t.total_short_notional, risk_weight |-> 100]
     ELSE DefaultPositionDelta]

RECURSIVE ImrSum(_, _)
ImrSum(risk_params, i) ==
  IF i = 0 THEN 0 ELSE ImrSum(risk_params, i - 1) + risk_params[i].imr_bps

RECURSIVE MarkSum(_, _)
MarkSum(risk_params, i) ==
  IF i = 0 THEN [total_price |-> 0, count |-> 0]
  ELSE LET rest == MarkSum(risk_params, i - 1) IN
       IF risk_params[i].mark_price > 0
       THEN [total_price |-> rest.total_price + risk_params[i].mark_price,
             count |-> rest.count + 1]
       ELSE rest

RECURSIVE GroupImSum(_, _, _, _)
GroupImSum(groups, avg_price, avg_imr, g) ==
  IF g < 0 THEN 0
  ELSE GroupImSum(groups, avg_price, avg_imr, g - 1)
       + (IF groups[g].net_delta = 0 /\ groups[g].long_notional = 0
             /\ groups[g].short_notional = 0
          THEN 0
          ELSE (((Abs(groups[g].net_delta) * avg_price) \div SCALE) * avg_imr) \div 10000)

calculate_net_im(groups, risk_params) ==
  LET n == Len(risk_params)
      avg_imr == IF n = 0 THEN DEFAULT_IMR_BPS ELSE ImrSum(risk_params, n) \div n
      m == MarkSum(risk_params, n)
      avg_price == IF n = 0 THEN SCALE
                   ELSE IF m.count = 0 THEN SCALE ELSE m.total_price \div m.count
  IN GroupImSum(groups, avg_price, avg_imr, GROUP_COUNT - 1)

(* The correlation of two groups: the first entry that names both. *)
FindCorrelation(correlations, g1, g2) ==
  LET hits == {i \in 1 .. Len(correlations) :
                 \/ /\ correlations[i].inst1_slab = g1.underlying_id
                    /\ correlations[i].inst2_slab = g2.underlying_id
                 \/ /\ correlations[i].inst2_slab = g1.underlying_id
                    /\ correlations[i].inst1_slab = g2.underlying_id}
  IN IF hits = {} THEN 0
     ELSE correlations[CHOOSE i \in hits : \A j \in hits : i <= j].correlation

PairBenefit(correlations, g1, g2) ==
  IF g1.net_delta = 0 \/ g2.net_delta = 0 THEN 0
  ELSE IF (g1.net_delta > 0) # (g2.net_delta > 0)
          /\ FindCorrelation(correlations, g1, g2) > MIN_CORRELATION_THRESHOLD
  THEN (((Min(g1.long_notional + g1.short_notional, g2.long_notional + g2.short_notional)
          * MAX_CORRELATION_BENEFIT_BPS) \div 10000)
        * FindCorrelation(correlations, g1, g2)) \div 1000
  ELSE 0

(* The inner loop of calculate_correlation_benefit: groups j .. 15 against i. *)
RECURSIVE BenefitRow(_, _, _, _)
BenefitRow(groups, correlations, i, j) ==
  IF j >= GROUP_COUNT THEN 0
  ELSE PairBenefit(correlations, groups[i], groups[j])
       + BenefitRow(groups, correlations, i, j + 1)

RECURSIVE BenefitSum(_, _, _)
BenefitSum(groups, correlations, i) ==
  IF i >= GROUP_COUNT THEN 0
  ELSE BenefitRow(groups, correlations, i, i + 1) + BenefitSum(groups, correlations, i + 1)

calculate_correlation_benefit(groups, correlations) == BenefitSum(groups, correlations, 0)

(* correlations is [some |-> FALSE] or [some |-> TRUE, entries |-> ...]. *)
MarginResult(gross, net_im, corr_benefit) ==
  [gross_im |-> gross.gross_im,
   net_im |-> saturating_sub(net_im, corr_benefit),
   gross_mm |-> gross.gross_mm,
   net_mm |-> saturating_sub(net_im \div 2, corr_benefit \div 2),
   total_notional |-> gross.total_notional,
   netting_benefit |-> saturating_sub(gross.gross_im, saturating_sub(net_im, corr_benefit)),
   correlation_benefit |-> corr_benefit,
   position_count |-> gross.position_count]

calculate_portfolio_margin(portfolio, risk_params, correlations) ==
  MarginResult(GrossMargins(portfolio, risk_params, ExposureKeys),
               calculate_net_im(calculate_net_exposure_groups(portfolio, risk_params),
                                risk_params),
               IF correlations.some
               THEN calculate_correlation_benefit(
                      calculate_net_exposure_groups(portfolio, risk_params),
                      correlations.entries)
               ELSE 0)

(* -- inputs: exposures on instrument 0 of every shard; risk params for    *)
(* those instruments and for instrument 1 of shard 0, which is not held -- *)
ExposureQtys == {0 - SCALE, 0, SCALE, 2 * SCALE}
MarkAndImr == {<<0, DEFAULT_IMR_BPS>>, <<SCALE, DEFAULT_IMR_BPS>>,
               <<3 * SCALE, 2 * DEFAULT_IMR_BPS>>}
ParamKeys == (ShardIdx \X {0}) \cup {<<0, 1>>}
MaxParams == 2

RiskParamSet ==
  {[slab_idx |-> key[1], instrument_idx |-> key[2], imr_bps |-> mi[2],
    mmr_bps |-> mi[2] \div 2, contract_size |-> SCALE, mark_price |-> mi[1],
    risk_weight |-> 100] : key \in ParamKeys, mi \in MarkAndImr}

RiskParamLists == UNION {[1 .. n -> RiskParamSet] : n \in 0 .. MaxParams}

CorrelationSet ==
  {[some |-> FALSE],
   [some |-> TRUE,
    entries |-> <<[inst1_slab |-> 0, inst1_idx |-> 0, inst2_slab |-> 1, inst2_idx |-> 0,
                   correlation |-> 900]>>]}

InitMargin ==
  /\ InitShard
  /\ insurance = <<>>
  /\ shards = <<>>
  /\ out = [call |-> "none"]
  /\ \E qty \in [ShardIdx -> ExposureQtys] :
       router = [vault |-> [balance |-> 0],
                 portfolio |-> [user |-> 0, equity |-> 0, im |-> 0, mm |-> 0,
                                exposures |-> [key \in ExposureKeys |->
                                                 IF key[2] = 0 THEN qty[key[1]] ELSE 0]]]

CalculatePortfolioMarginIn ==
  /\ out.call = "none"
  /\ \E risk_params \in RiskParamLists, correlations \in CorrelationSet :
       out' = [call |-> "calculate_portfolio_margin",
               args |-> [risk_params |-> risk_params, correlations |-> correlations],
               result |-> calculate_portfolio_margin(router.portfolio, risk_params,
                                                     correlations)]
  /\ UNCHANGED <<slab, ret, hist, shards, router, insurance>>

NextMargin == CalculatePortfolioMarginIn

SpecMargin == InitMargin /\ [][NextMargin]_vars

(* C26: whatever the portfolio and the risk params, with correlations or   *)
(* without, the net initial margin is at most the gross initial margin.    *)
C26_NetImAtMostGrossIm ==
  out.call = "calculate_portfolio_margin" => out.result.net_im <= out.result.gross_im

(* ---------------------------------------------------------------------- *)
(* Slab: insurance pool                                                    *)
(*                                                                         *)
(* insurance = [pool |-> InsurancePool, now |-> the clock the callers read *)
(* current_ts and timestamp from].                                         *)
(* ---------------------------------------------------------------------- *)
INSURANCE_HISTORY_SIZE == 100
DEFAULT_INSURANCE_RATE_BPS == 25
ADL_TRIGGER_THRESHOLD_BPS == 50
MaxNow == 1
MaxEvents == 2
MaxBalance == 2

DefaultInsuranceEvent ==
  [event_type |-> "LiquidationContribution", timestamp |-> 0, amount |-> 0,
   balance_after |-> 0, related_account |-> 0, related_instrument |-> 0]

DefaultInsuranceStats ==
  [total_contributions |-> 0, total_payouts |-> 0, adl_events |-> 0,
   shortfall_events |-> 0, max_single_payout |-> 0, last_contribution_ts |-> 0,
   last_payout_ts |-> 0]

(* InsurancePool::new followed by the three parameters that                *)
(* process_initialize_insurance sets.                                       *)
NewInsurancePool(contribution_rate_bps, adl_threshold_bps, withdrawal_timelock_secs) ==
  [balance |-> 0, target_balance |-> 0,
   contribution_rate_bps |-> contribution_rate_bps,
   adl_threshold_bps |-> adl_threshold_bps,
   withdrawal_timelock_secs |-> withdrawal_timelock_secs,
   pending_withdrawal |-> 0, pending_withdrawal_unlock_ts |-> 0,
   total_open_interest |-> 0, stats |-> DefaultInsuranceStats,
   event_write_idx |-> 0,
   events |-> [i \in 0 .. (INSURANCE_HISTORY_SIZE - 1) |-> DefaultInsuranceEvent]]

(* event_write_idx is a u32 and wraps at 2^32, far above MaxEvents. *)
record_event(pool, event) ==
  [pool EXCEPT !.events[pool.event_write_idx % INSURANCE_HISTORY_SIZE] = event,
               !.event_write_idx = @ + 1]

contribute(pool, amount, event_type, related_account, related_instrument, timestamp) ==
  record_event(
    [pool EXCEPT !.balance = @ + amount,
                 !.stats.total_contributions = @ + amount,
                 !.stats.last_contribution_ts = timestamp],
    [event_type |-> event_type, timestamp |-> timestamp, amount |-> amount,
     balance_after |-> pool.balance + amount, related_account |-> related_account,
     related_instrument |-> related_instrument])

(* PayoutOf is payout once actual_payout = min(amount, balance) is known. *)
PayoutOf(pool, actual_payout, event_type, related_account, related_instrument, timestamp) ==
  IF actual_payout = 0
  THEN [err |-> "InsufficientFunds", pool |-> pool, actual_payout |-> 0]
  ELSE
    [err |-> "Ok",
     pool |-> record_event(
       [pool EXCEPT !.balance = saturating_sub(@, actual_payout),
                    !.stats.total_payouts = @ + actual_payout,
                    !.stats.last_payout_ts = timestamp,
                    !.stats.max_single_payout = IF actual_payout > @ THEN actual_payout ELSE @,
                    !.stats.shortfall_events =
                      IF event_type = "ShortfallPayout" THEN @ + 1 ELSE @,
                    !.stats.adl_events =
                      IF event_type # "ShortfallPayout" /\ event_type = "AutoDeleverage"
                      THEN @ + 1 ELSE @],
       [event_type |-> event_type, timestamp |-> timestamp,
        amount |-> 0 - actual_payout,
        balance_after |-> saturating_sub(pool.balance, actual_payout),
        related_account |-> related_account,
        related_instrument |-> related_instrument]),
     actual_payout |-> actual_payout]

payout_without_min(pool, amount, event_type, related_account, related_instrument, timestamp) ==
  PayoutOf(pool, amount, event_type, related_account, related_instrument, timestamp)

payout(pool, amount, event_type, related_account, related_instrument, timestamp) ==
  PayoutOf(pool, Min(amount, pool.balance), event_type, related_account,
           related_instrument, timestamp)

should_trigger_adl(pool) ==
  IF pool.total_open_interest = 0 THEN FALSE
  ELSE pool.balance < (pool.total_open_interest * pool.adl_threshold_bps) \div 10000

update_open_interest(pool, new_oi) ==
  [pool EXCEPT !.total_open_interest = new_oi, !.target_balance = new_oi \div 100]

initiate_withdrawal(pool, amount, current_ts) ==
  IF amount > pool.balance THEN [err |-> "InsufficientFunds", pool |-> pool]
  ELSE IF should_trigger_adl(pool) THEN [err |-> "InsuranceBelowThreshold", pool |-> pool]
  ELSE [err |-> "Ok",
        pool |-> [pool EXCEPT !.pending_withdrawal = amount,
                              !.pending_withdrawal_unlock_ts =
                                current_ts + pool.withdrawal_timelock_secs]]

complete_withdrawal_unlocked(pool, current_ts) ==
  IF pool.pending_withdrawal = 0
  THEN [err |-> "NoPendingWithdrawal", pool |-> pool, amount |-> 0]
  ELSE IF saturating_sub(pool.balance, pool.pending_withdrawal)
          < (pool.total_open_interest * pool.adl_threshold_bps) \div 10000
  THEN [err |-> "InsuranceBelowThreshold", pool |-> pool, amount |-> 0]
  ELSE [err |-> "Ok",
        pool |-> [pool EXCEPT !.balance = saturating_sub(@, pool.pending_withdrawal),
                              !.pending_withdrawal = 0,
                              !.pending_withdrawal_unlock_ts = 0],
        amount |-> pool.pending_withdrawal]

complete_withdrawal(pool, current_ts) ==
  IF pool.pending_withdrawal = 0
  THEN [err |-> "NoPendingWithdrawal", pool |-> pool, amount |-> 0]
  ELSE IF current_ts < pool.pending_withdrawal_unlock_ts
  THEN [err |-> "WithdrawalLocked", pool |-> pool, amount |-> 0]
  ELSE IF saturating_sub(pool.balance, pool.pending_withdrawal)
          < (pool.total_open_interest * pool.adl_threshold_bps) \div 10000
  THEN [err |-> "InsuranceBelowThreshold", pool |-> pool, amount |-> 0]
  ELSE [err |-> "Ok",
        pool |-> [pool EXCEPT !.balance = saturating_sub(@, pool.pending_withdrawal),
                              !.pending_withdrawal = 0,
                              !.pending_withdrawal_unlock_ts = 0],
        amount |-> pool.pending_withdrawal]

cancel_withdrawal(pool) ==
  [pool EXCEPT !.pending_withdrawal = 0, !.pending_withdrawal_unlock_ts = 0]

(* process_insurance_payout after the pool's payout p: an Err of payout is *)
(* returned as it is by the `?`.                                            *)
InsurancePayoutResult(shortfall_amount, p) ==
  IF p.err # "Ok"
  THEN [err |-> p.err, pool |-> p.pool, payout |-> 0, adl_required |-> FALSE]
  ELSE [err |-> "Ok", pool |-> p.pool, payout |-> p.actual_payout,
        adl_required |-> \/ saturating_sub(shortfall_amount, p.actual_payout) > 0
                         \/ should_trigger_adl(p.pool)]

process_insurance_payout(pool, shortfall_amount, related_account, related_instrument, timestamp) ==
  InsurancePayoutResult(shortfall_amount,
                        payout(pool, shortfall_amount, "ShortfallPayout", related_account,
                               related_instrument, timestamp))

(* -- the pool's operations as actions -- *)
Amounts == 0 .. 2
OpenInterests == {0, 200}
Timelocks == {1}

InitInsurance ==
  /\ InitShard
  /\ shards = <<>>
  /\ out = [call |-> "none"]
  /\ router = <<>>
  /\ \E timelock \in Timelocks :
       insurance = [pool |-> NewInsurancePool(DEFAULT_INSURANCE_RATE_BPS,
                                              ADL_TRIGGER_THRESHOLD_BPS, timelock),
                    now |-> 0]

InsuranceCall(call, args, r) ==
  /\ insurance' = [insurance EXCEPT !.pool = r.pool]
  /\ out' = [call |-> call, args |-> args, result |-> [x \in DOMAIN r \ {"pool"} |-> r[x]]]
  /\ UNCHANGED <<slab, ret, hist, shards, router>>

TickIn ==
  /\ insurance.now < MaxNow
  /\ insurance' = [insurance EXCEPT !.now = @ + 1]
  /\ out' = [call |-> "tick"]
  /\ UNCHANGED <<slab, ret, hist, shards, router>>

ContributeIn ==
  \E amount \in Amounts :
    /\ insurance.pool.event_write_idx < MaxEvents
    /\ insurance.pool.balance + amount <= MaxBalance
    /\ InsuranceCall("contribute", [amount |-> amount],
                     [err |-> "Ok",
                      pool |-> contribute(insurance.pool, amount, "LpContribution", 0, 0,
                                          insurance.now)])

PayoutIn ==
  \E amount \in Amounts, event_type \in {"ShortfallPayout", "AutoDeleverage"} :
    /\ insurance.pool.event_write_idx < MaxEvents
    /\ InsuranceCall("payout", [amount |-> amount, event_type |-> event_type],
                     payout(insurance.pool, amount, event_type, 1, 0, insurance.now))

InsurancePayoutIn ==
  \E shortfall_amount \in Amounts :
    /\ insurance.pool.event_write_idx < MaxEvents
    /\ InsuranceCall("process_insurance_payout", [shortfall_amount |-> shortfall_amount],
                     process_insurance_payout(insurance.pool, shortfall_amount, 1, 0,
                                              insurance.now))

UpdateOpenInterestIn ==
  \E new_oi \in OpenInterests :
    InsuranceCall("update_open_interest", [new_oi |-> new_oi],
                  [err |-> "Ok", pool |-> update_open_interest(insurance.pool, new_oi)])

InitiateWithdrawalIn ==
  \E amount \in Amounts :
    InsuranceCall("initiate_withdrawal", [amount |-> amount],
                  initiate_withdrawal(insurance.pool, amount, insurance.now))

CompleteWithdrawalIn ==
  InsuranceCall("complete_withdrawal", [current_ts |-> insurance.now],
                complete_withdrawal(insurance.pool, insurance.now))

CancelWithdrawalIn ==
  InsuranceCall("cancel_withdrawal", <<>>,
                [err |-> "Ok", pool |-> cancel_withdrawal(insurance.pool)])

NextInsurance ==
  \/ TickIn
  \/ ContributeIn
  \/ PayoutIn
  \/ InsurancePayoutIn
  \/ UpdateOpenInterestIn
  \/ InitiateWithdrawalIn
  \/ CompleteWithdrawalIn
  \/ CancelWithdrawalIn

SpecInsurance == InitInsurance /\ [][NextInsurance]_vars

(* The event that the step wrote: the ring slot at the old write index. *)
EventWritten == insurance'.pool.events[insurance.pool.event_write_idx % INSURANCE_HISTORY_SIZE]

PayoutMade ==
  /\ out'.call \in {"payout", "process_insurance_payout"}
  /\ out'.result.err = "Ok"

PaidBy(o) == IF o.call = "payout" THEN o.result.actual_payout ELSE o.result.payout

PayoutRecorded ==
  PayoutMade =>
    /\ insurance'.pool.event_write_idx = insurance.pool.event_write_idx + 1
    /\ EventWritten.amount < 0
    /\ Abs(EventWritten.amount) = PaidBy(out')
    /\ EventWritten.balance_after = insurance.pool.balance - Abs(EventWritten.amount)
    /\ EventWritten.balance_after = insurance'.pool.balance
    /\ EventWritten.timestamp = insurance.now

(* C27: the insurance balance is never negative, and every payout records  *)
(* an event whose amount is negative and whose balance_after is the        *)
(* balance before the payout minus the absolute amount paid.               *)
C27_BalanceNonNegativePayoutRecorded ==
  /\ [](insurance.pool.balance >= 0)
  /\ [][PayoutRecorded]_vars

(* A payout that paid less than was asked, because the pool ran out. *)
C27_Witness ==
  /\ out.call = "payout"
  /\ out.result.err = "Ok"
  /\ out.result.actual_payout < out.args.amount
  /\ insurance.pool.balance = 0
  /\ \E i \in DOMAIN insurance.pool.events :
       insurance.pool.events[i].amount = 0 - out.result.actual_payout

InsurancePayoutCalled ==
  out'.call = "process_insurance_payout" /\ out'.args.shortfall_amount > 0

(* C28: a payout request for a shortfall A > 0 against balance B >= 0,     *)
(* the empty pool included, pays min(A, B), leaves A - min(A, B) of the    *)
(* shortfall, and signals that ADL is required whenever B < A.             *)
C28_PayoutPaysMinAndSignalsAdl ==
  [][InsurancePayoutCalled =>
       /\ out'.result.err = "Ok"
       /\ out'.result.payout = Min(out'.args.shortfall_amount, insurance.pool.balance)
       /\ insurance'.pool.balance = insurance.pool.balance - out'.result.payout
       /\ (insurance.pool.balance < out'.args.shortfall_amount => out'.result.adl_required)
    ]_vars

(* The same for a pool that holds something: B > 0. *)
FundedPoolPayoutPaysMin ==
  [][(InsurancePayoutCalled /\ insurance.pool.balance > 0) =>
       /\ out'.result.err = "Ok"
       /\ out'.result.payout = Min(out'.args.shortfall_amount, insurance.pool.balance)
       /\ insurance'.pool.balance = insurance.pool.balance - out'.result.payout
       /\ (insurance.pool.balance < out'.args.shortfall_amount => out'.result.adl_required)
    ]_vars

AdlThreshold(pool) == (pool.total_open_interest * pool.adl_threshold_bps) \div 10000

(* What complete_withdrawal needs in the state it is called in. *)
WithdrawalDue ==
  /\ insurance.pool.pending_withdrawal > 0
  /\ insurance.now >= insurance.pool.pending_withdrawal_unlock_ts
  /\ saturating_sub(insurance.pool.balance, insurance.pool.pending_withdrawal)
       >= AdlThreshold(insurance.pool)

CompleteStep ==
  out'.call = "complete_withdrawal" =>
    IF WithdrawalDue
    THEN /\ out'.result.err = "Ok"
         /\ out'.result.amount = insurance.pool.pending_withdrawal
         /\ insurance'.pool.balance
              = saturating_sub(insurance.pool.balance, insurance.pool.pending_withdrawal)
         /\ insurance'.pool.balance >= AdlThreshold(insurance'.pool)
         /\ insurance'.pool.pending_withdrawal = 0
    ELSE /\ out'.result.err # "Ok"
         /\ insurance'.pool = insurance.pool

InitiateStep ==
  (out'.call = "initiate_withdrawal" /\ out'.result.err = "Ok") =>
    /\ insurance'.pool.pending_withdrawal = out'.args.amount
    /\ insurance'.pool.pending_withdrawal_unlock_ts
         = insurance.now + insurance.pool.withdrawal_timelock_secs
    /\ insurance'.pool.balance = insurance.pool.balance

(* Nothing but a successful initiate, a complete or a cancel touches the *)
(* pending withdrawal and its unlock time.                               *)
PendingKept ==
  (~(out'.call = "initiate_withdrawal" /\ out'.result.err = "Ok")
   /\ out'.call \notin {"complete_withdrawal", "cancel_withdrawal"}) =>
    /\ insurance'.pool.pending_withdrawal = insurance.pool.pending_withdrawal
    /\ insurance'.pool.pending_withdrawal_unlock_ts
         = insurance.pool.pending_withdrawal_unlock_ts

(* C29: complete_withdrawal removes funds only if a withdrawal is pending, *)
(* now >= the unlock_ts that the most recent initiate_withdrawal set (its  *)
(* now + timelock), and the balance after the withdrawal is not below      *)
(* OI * adl_threshold_bps / 10000; otherwise it fails and the balance and  *)
(* the pending state are unchanged.                                        *)
C29_WithdrawalTimelocked == [][CompleteStep /\ InitiateStep /\ PendingKept]_vars

(* A withdrawal completed after its timelock, above the ADL threshold. *)
C29_Witness ==
  /\ out.call = "complete_withdrawal"
  /\ out.result.err = "Ok"
  /\ out.result.amount > 0
  /\ insurance.now >= 1
  /\ insurance.pool.total_open_interest > 0
  /\ insurance.pool.pending_withdrawal = 0

(* ---------------------------------------------------------------------- *)
(* Slab: liquidation                                                       *)
(* ---------------------------------------------------------------------- *)
MAX_LIQUIDATION_IMPACT_BPS == 500
LIQUIDATION_FEE_BPS == 50

(* percolator_common: the profit of qty bought at entry_px and priced at   *)
(* price (long convention), and the margin of a position.                  *)
calculate_pnl(qty, entry_px, price) == qty * (price - entry_px)

calculate_im(qty, contract_size, mark_px, imr_bps) ==
  (((Abs(qty) * contract_size * mark_px) \div (SCALE * SCALE)) * imr_bps) \div 10000

calculate_mm(qty, contract_size, mark_px, mmr_bps) ==
  (((Abs(qty) * contract_size * mark_px) \div (SCALE * SCALE)) * mmr_bps) \div 10000

(* The walk of calculate_account_equity from pos_idx on: it stops at the   *)
(* end of the chain or at a record that is not in use, and never returns   *)
(* on a chain that has a cycle.                                            *)
RECURSIVE EquityLoop(_, _, _, _)
EquityLoop(s, pos_idx, equity, fuel) ==
  IF pos_idx = INVALID_INDEX THEN [kind |-> "Some", equity |-> equity]
  ELSE IF fuel = 0 THEN [kind |-> "NoReturn", equity |-> equity]
  ELSE IF ~get_position(s, pos_idx) THEN [kind |-> "Some", equity |-> equity]
  ELSE EquityLoop(s, s.positions[pos_idx].next_in_account,
                  equity + calculate_pnl(s.positions[pos_idx].qty,
                                         s.positions[pos_idx].entry_px, s.header.mark_px),
                  fuel - 1)

calculate_account_equity(s, account_idx) ==
  IF ~get_account(s, account_idx) THEN [kind |-> "Some", equity |-> 0]
  ELSE EquityLoop(s, s.accounts[account_idx].position_head, s.accounts[account_idx].cash,
                  NPositions + 1)

calculate_liquidation_price(mark_px, is_long) ==
  IF is_long
  THEN saturating_sub(mark_px, (mark_px * MAX_LIQUIDATION_IMPACT_BPS) \div 10000)
  ELSE mark_px + (mark_px * MAX_LIQUIDATION_IMPACT_BPS) \div 10000

(* The walk of unlink_position_from_account: the first link to pos_idx is  *)
(* replaced by next_idx.                                                    *)
RECURSIVE UnlinkLoop(_, _, _, _, _, _)
UnlinkLoop(s, account_idx, pos_idx, prev_idx, curr_idx, fuel) ==
  IF curr_idx = INVALID_INDEX \/ fuel = 0 THEN s
  ELSE IF curr_idx = pos_idx
  THEN IF prev_idx = INVALID_INDEX
       THEN [s EXCEPT !.accounts[account_idx].position_head =
                        IF get_position(s, curr_idx)
                        THEN s.positions[curr_idx].next_in_account ELSE INVALID_INDEX]
       ELSE IF get_position(s, prev_idx)
       THEN [s EXCEPT !.positions[prev_idx].next_in_account =
                        IF get_position(s, curr_idx)
                        THEN s.positions[curr_idx].next_in_account ELSE INVALID_INDEX]
       ELSE s
  ELSE UnlinkLoop(s, account_idx, pos_idx, curr_idx,
                  IF get_position(s, curr_idx)
                  THEN s.positions[curr_idx].next_in_account ELSE INVALID_INDEX,
                  fuel - 1)

unlink_position_from_account(s, account_idx, pos_idx) ==
  IF ~get_account(s, account_idx) THEN s
  ELSE UnlinkLoop(s, account_idx, pos_idx, INVALID_INDEX,
                  s.accounts[account_idx].position_head, NPositions + 1)

close_position_for_liquidation(s, account_idx, pos_idx, close_price, current_ts) ==
  free_position(
    unlink_position_from_account(
      record_trade(s, [order_id_maker |-> 0,
                       instrument_idx |-> s.positions[pos_idx].instrument_idx,
                       side |-> IF s.positions[pos_idx].qty > 0 THEN "Sell" ELSE "Buy",
                       price |-> close_price,
                       qty |-> Abs(s.positions[pos_idx].qty),
                       ts |-> current_ts]),
      account_idx, pos_idx),
    pos_idx)

(* One closed position added to the result. *)
LiquidationClosed(result, qty, entry_px, liq_price) ==
  [positions_closed |-> result.positions_closed + 1,
   total_qty_liquidated |-> result.total_qty_liquidated + Abs(qty),
   total_value |-> result.total_value + mul_u64(Abs(qty), liq_price),
   fees_collected |-> result.fees_collected
                      + (mul_u64(Abs(qty), liq_price) * LIQUIDATION_FEE_BPS) \div 10000,
   remaining_deficit |-> result.remaining_deficit - calculate_pnl(qty, entry_px, liq_price)]

(* The while loop of process_liquidation from pos_idx on. *)
RECURSIVE LiquidationLoop(_, _, _, _, _, _)
LiquidationLoop(s, result, account_idx, pos_idx, current_ts, fuel) ==
  IF pos_idx = INVALID_INDEX \/ result.remaining_deficit <= 0
  THEN [kind |-> "Some", slab |-> s, result |-> result]
  ELSE IF fuel = 0 THEN [kind |-> "NoReturn", slab |-> s, result |-> result]
  ELSE IF ~get_position(s, pos_idx) THEN [kind |-> "Some", slab |-> s, result |-> result]
  ELSE IF s.positions[pos_idx].qty = 0
  THEN LiquidationLoop(s, result, account_idx, s.positions[pos_idx].next_in_account,
                       current_ts, fuel - 1)
  ELSE LiquidationLoop(
         close_position_for_liquidation(
           s, account_idx, pos_idx,
           calculate_liquidation_price(s.header.mark_px, s.positions[pos_idx].qty > 0),
           current_ts),
         LiquidationClosed(
           result, s.positions[pos_idx].qty, s.positions[pos_idx].entry_px,
           calculate_liquidation_price(s.header.mark_px, s.positions[pos_idx].qty > 0)),
         account_idx, s.positions[pos_idx].next_in_account, current_ts, fuel - 1)

(* The walk of recalculate_margin_requirements from pos_idx on. *)
RECURSIVE MarginLoop(_, _, _, _)
MarginLoop(s, pos_idx, totals, fuel) ==
  IF pos_idx = INVALID_INDEX THEN [kind |-> "Some", im |-> totals.im, mm |-> totals.mm]
  ELSE IF fuel = 0 THEN [kind |-> "NoReturn", im |-> totals.im, mm |-> totals.mm]
  ELSE IF ~get_position(s, pos_idx)
  THEN [kind |-> "Some", im |-> totals.im, mm |-> totals.mm]
  ELSE MarginLoop(
         s, s.positions[pos_idx].next_in_account,
         [im |-> totals.im
                 + calculate_im(s.positions[pos_idx].qty,
                                IF get_instrument(s, s.positions[pos_idx].instrument_idx)
                                THEN s.instruments[s.positions[pos_idx].instrument_idx].contract_size
                                ELSE SCALE,
                                s.header.mark_px, s.header.imr_bps),
          mm |-> totals.mm
                 + calculate_mm(s.positions[pos_idx].qty,
                                IF get_instrument(s, s.positions[pos_idx].instrument_idx)
                                THEN s.instruments[s.positions[pos_idx].instrument_idx].contract_size
                                ELSE SCALE,
                                s.header.mark_px, s.header.mmr_bps)],
         fuel - 1)

recalculate_margin_requirements(s, account_idx) ==
  IF ~get_account(s, account_idx) THEN [kind |-> "Some", im |-> 0, mm |-> 0]
  ELSE MarginLoop(s, s.accounts[account_idx].position_head, [im |-> 0, mm |-> 0],
                  NPositions + 1)

ZeroLiquidationResult(deficit_target) ==
  [positions_closed |-> 0, total_qty_liquidated |-> 0, total_value |-> 0,
   fees_collected |-> 0, remaining_deficit |-> deficit_target]

LiquidationErr(e, s, deficit_target) ==
  [err |-> e, slab |-> s, result |-> ZeroLiquidationResult(deficit_target)]

(* The end of process_liquidation: margins, fees, seqno. *)
LiquidationSettled(s, account_idx, result, m) ==
  IF m.kind = "NoReturn" THEN LiquidationErr("NoReturn", s, 0)
  ELSE [err |-> "Ok",
        slab |-> increment_seqno(
                   IF get_account(s, account_idx)
                   THEN [s EXCEPT !.accounts[account_idx].cash = @ - result.fees_collected,
                                  !.accounts[account_idx].im = m.im,
                                  !.accounts[account_idx].mm = m.mm]
                   ELSE s),
        result |-> result]

LiquidationLooped(account_idx, l) ==
  IF l.kind = "NoReturn" THEN LiquidationErr("NoReturn", l.slab, 0)
  ELSE LiquidationSettled(l.slab, account_idx, l.result,
                          recalculate_margin_requirements(l.slab, account_idx))

LiquidationChecked(s, account_idx, deficit_target, current_ts, e) ==
  IF e.kind = "NoReturn" THEN LiquidationErr("NoReturn", s, deficit_target)
  ELSE IF e.equity >= s.accounts[account_idx].mm
  THEN LiquidationErr("InvalidAccount", s, deficit_target)
  ELSE LiquidationLooped(account_idx,
                         LiquidationLoop(s, ZeroLiquidationResult(deficit_target), account_idx,
                                         s.accounts[account_idx].position_head, current_ts,
                                         NPositions + 1))

process_liquidation(s, account_idx, deficit_target, current_ts) ==
  IF ~get_account(s, account_idx) THEN LiquidationErr("InvalidAccount", s, deficit_target)
  ELSE LiquidationChecked(s, account_idx, deficit_target, current_ts,
                          calculate_account_equity(s, account_idx))

(* -- one account that trades against resting orders, mark-price updates   *)
(* and liquidation calls --                                                *)
DeficitTargets == {1000}

(* The shard after the maker, account 1, rested an ask of qty at 101 and   *)
(* account 0 bought it: place_order, reserve (hold 1), commit.             *)
BoughtShard(qty) ==
  process_commit(
    process_reserve(place_order(ShardWith(1, 100), 1, 0, "Sell", "LIVE", 101, qty, 0).slab,
                    0, 0, "Buy", qty, 101, 0).slab,
    1, 1).slab

InitLiquidation ==
  /\ \E qty \in Qtys : slab = BoughtShard(qty)
  /\ ret = [op |-> "commit", err |-> "Ok", tag |-> ""]
  /\ hist = [h \in HoldIds |-> IF h = 1 THEN "committed" ELSE "none"]
  /\ insurance = <<>>
  /\ shards = <<>>
  /\ out = [call |-> "none"]
  /\ router = <<>>

LiquidationCall(args, r) ==
  /\ slab' = IF r.err = "NoReturn" THEN slab ELSE r.slab
  /\ ret' = [op |-> "liquidate", err |-> r.err, tag |-> ""]
  /\ out' = [call |-> "process_liquidation", args |-> args, err |-> r.err,
             result |-> r.result]
  /\ UNCHANGED <<hist, shards, router, insurance>>

LiquidateIn(lim, accts, targets) ==
  /\ Budget(lim)
  /\ \E a \in accts, deficit_target \in targets :
       LiquidationCall([account_idx |-> a, deficit_target |-> deficit_target],
                       process_liquidation(slab, a, deficit_target, 1))

LiquidationLimit == MaxSeqno + 6

NextLiquidation ==
  \/ OpenAccountIn(LiquidationLimit, {0})
  \/ PlaceOrderIn(LiquidationLimit, {1}, {0}, {"Buy"}, {100}, {2})
  \/ ReserveIn(LiquidationLimit, {0}, {0}, {"Sell"}, {1}, {100}, {0})
  \/ CommitIn(LiquidationLimit, {1})
  \/ UpdateMarkPriceIn(LiquidationLimit, {99, 102})
  \/ LiquidateIn(LiquidationLimit, {0}, DeficitTargets)

SpecLiquidation == InitLiquidation /\ [][NextLiquidation]_vars

(* The position records of the account, on its chain or not. *)
AccountPositions(s, account_idx) ==
  {i \in PositionIdx : s.positions[i].used /\ s.positions[i].account_idx = account_idx}

RECURSIVE UnrealizedPnlSum(_, _)
UnrealizedPnlSum(s, S) ==
  IF S = {} THEN 0
  ELSE LET i == CHOOSE x \in S : TRUE
       IN calculate_pnl(s.positions[i].qty, s.positions[i].entry_px, s.header.mark_px)
          + UnrealizedPnlSum(s, S \ {i})

(* cash plus the unrealized PnL of all the positions of the account. *)
AccountEquity(s, account_idx) ==
  s.accounts[account_idx].cash + UnrealizedPnlSum(s, AccountPositions(s, account_idx))

LiquidationRefusedUnchanged ==
  /\ out'.err # "Ok"
  /\ slab'.positions = slab.positions
  /\ slab'.accounts = slab.accounts
  /\ slab'.header.seqno = slab.header.seqno

(* C30: liquidation closes positions only for an account whose equity,     *)
(* cash plus the unrealized PnL of all of its positions, is strictly below *)
(* mm; for an account with equity >= mm the call is refused and no         *)
(* position, cash, margin or seqno changes.                                *)
C30_LiquidationOnlyBelowMm ==
  [][ret'.op = "liquidate" =>
       IF AccountEquity(slab, out'.args.account_idx)
            < slab.accounts[out'.args.account_idx].mm
       THEN TRUE
       ELSE LiquidationRefusedUnchanged]_vars

(* The same with the equity that the walk of the account's chain finds. *)
ChainEquityBelowMmOrRefused ==
  [][ret'.op = "liquidate" =>
       IF /\ calculate_account_equity(slab, out'.args.account_idx).kind = "Some"
          /\ calculate_account_equity(slab, out'.args.account_idx).equity
               < slab.accounts[out'.args.account_idx].mm
       THEN TRUE
       ELSE LiquidationRefusedUnchanged]_vars

(***************************************************************************)
(* Liquidation and the shard's insurance pool.                              *)
(* programs/slab/src/state/insurance.rs, instructions/insurance.rs          *)
(***************************************************************************)

calculate_liquidation_contribution(pool, liquidation_notional) ==
  (liquidation_notional * pool.contribution_rate_bps) \div 10000

process_liquidation_contribution(pool, liquidation_notional, related_account, related_instrument, timestamp) ==
  LET contribution == calculate_liquidation_contribution(pool, liquidation_notional) IN
  [err |-> "Ok",
   pool |-> IF contribution > 0
            THEN contribute(pool, contribution, "LiquidationContribution", related_account,
                            related_instrument, timestamp)
            ELSE pool,
   contribution |-> contribution]

(* Notionals handed to process_liquidation_contribution. *)
LiquidationNotionals == {0, 428, 800}

(* A shard on which account 0, opened first, sold 4 at 100 to a bid of     *)
(* account 1: its position is in its chain.                                 *)
SoldShard ==
  process_commit(
    process_reserve(
      place_order(get_or_create_account(ShardWith(1, 100), 0),
                  1, 0, "Buy", "LIVE", 100, 4, 0).slab,
      0, 0, "Sell", 4, 100, 0).slab,
    1, 1).slab

InitLiquidationFund ==
  /\ slab = SoldShard
  /\ ret = [op |-> "commit", err |-> "Ok", tag |-> ""]
  /\ hist = [h \in HoldIds |-> IF h = 1 THEN "committed" ELSE "none"]
  /\ insurance = [pool |-> NewInsurancePool(DEFAULT_INSURANCE_RATE_BPS,
                                            ADL_TRIGGER_THRESHOLD_BPS, 1),
                  now |-> 0]
  /\ shards = <<>>
  /\ out = [call |-> "none"]
  /\ router = <<>>

LiquidationContributionIn ==
  \E liquidation_notional \in LiquidationNotionals :
    /\ insurance.pool.event_write_idx < MaxEvents
    /\ InsuranceCall("process_liquidation_contribution",
                     [liquidation_notional |-> liquidation_notional],
                     process_liquidation_contribution(insurance.pool, liquidation_notional,
                                                      0, 0, insurance.now))

(* The prepared shard starts at seqno 4. *)
LiquidationFundLimit == MaxSeqno + 2

NextLiquidationFund ==
  \/ PlaceOrderIn(LiquidationFundLimit, {1}, {0}, {"Buy"}, {100}, {4})
  \/ ReserveIn(LiquidationFundLimit, {0}, {0}, {"Sell"}, {4}, {100}, {0})
  \/ CommitIn(LiquidationFundLimit, {1})
  \/ UpdateMarkPriceIn(LiquidationFundLimit, {99, 102})
  \/ LiquidateIn(LiquidationFundLimit, {0}, DeficitTargets)
  \/ LiquidationContributionIn

SpecLiquidationFund == InitLiquidationFund /\ [][NextLiquidationFund]_vars

(* A step in which process_liquidation returned Ok and closed positions. *)
LiquidationClosedStep ==
  /\ ret'.op = "liquidate"
  /\ ret'.err = "Ok"
  /\ slab'.header.seqno = slab.header.seqno + 1
  /\ out'.call = "process_liquidation"
  /\ out'.result.positions_closed > 0

(* C31: a shard liquidation that closes positions adds the insurance share *)
(* of the liquidated notional, total_value * contribution_rate_bps / 10000, *)
(* to the balance of the shard's insurance pool in the same step.           *)
C31_LiquidationCreditsInsurance ==
  [][LiquidationClosedStep =>
       insurance'.pool.balance =
         insurance.pool.balance
           + calculate_liquidation_contribution(insurance.pool, out'.result.total_value)]_vars

(* What the code does: process_liquidation leaves the pool as it was. *)
LiquidationLeavesPool ==
  [][LiquidationClosedStep => insurance'.pool = insurance.pool]_vars

(* A liquidation that closed positions whose insurance share is positive. *)
LiquidationShareOwed ==
  /\ out.call = "process_liquidation"
  /\ out.err = "Ok"
  /\ out.result.positions_closed > 0
  /\ calculate_liquidation_contribution(insurance.pool, out.result.total_value) > 0

(***************************************************************************)
(* Global liquidation.  programs/router/src/instructions/liquidation.rs     *)
(* The router's LIQUIDATION_FEE_BPS has the value of the shard's.           *)
(***************************************************************************)
MAX_LIQUIDATION_POSITIONS == 16
INSURANCE_FUND_BPS == 25
MAX_LIQUIDATION_SLIPPAGE_BPS == 200

(* portfolio.exposures[i]: the exposures in the order of their keys. *)
ExposureCount == Cardinality(ExposureKeys)
ExposureAt(i) == <<(i - 1) \div Cardinality(InstrIdx), (i - 1) % Cardinality(InstrIdx)>>

(* mark_prices.iter().find(..).map(..).unwrap_or(0) *)
RECURSIVE FindMark(_, _, _, _)
FindMark(mark_prices, slab_idx, instrument_idx, i) ==
  IF i > Len(mark_prices) THEN 0
  ELSE IF mark_prices[i][1] = slab_idx /\ mark_prices[i][2] = instrument_idx
  THEN mark_prices[i][3]
  ELSE FindMark(mark_prices, slab_idx, instrument_idx, i + 1)

calculate_position_pnl(qty, mark_price) == 0

LiquidatablePosition(key, qty, mark_price) ==
  [slab_idx |-> key[1], instrument_idx |-> key[2], qty |-> qty, mark_price |-> mark_price,
   notional |-> mul_u64(Abs(qty), mark_price),
   unrealized_pnl |-> calculate_position_pnl(qty, mark_price)]

(* The loop over the exposures: acc is the positions collected so far. *)
RECURSIVE CollectLoop(_, _, _, _)
CollectLoop(portfolio, mark_prices, i, acc) ==
  IF i > ExposureCount \/ Len(acc) >= MAX_LIQUIDATION_POSITIONS THEN acc
  ELSE LET key == ExposureAt(i)
           qty == portfolio.exposures[key]
           mark_price == FindMark(mark_prices, key[1], key[2], 1)
       IN IF qty = 0 \/ mark_price = 0
          THEN CollectLoop(portfolio, mark_prices, i + 1, acc)
          ELSE CollectLoop(portfolio, mark_prices, i + 1,
                           Append(acc, LiquidatablePosition(key, qty, mark_price)))

(* Variant: the pass leaves the positions in the order of the exposures. *)
BubblePass_unsorted(positions, j, last) == positions

(* The inner loop of the bubble sort, j in 0 .. last - 1 (1-based here). *)
RECURSIVE BubblePass(_, _, _)
BubblePass(positions, j, last) ==
  IF j > last THEN positions
  ELSE BubblePass(IF positions[j].notional < positions[j + 1].notional
                  THEN [positions EXCEPT ![j] = positions[j + 1], ![j + 1] = positions[j]]
                  ELSE positions,
                  j + 1, last)

RECURSIVE BubbleSort(_, _)
BubbleSort(positions, i) ==
  IF i >= Len(positions) THEN positions
  ELSE BubbleSort(BubblePass(positions, 1, Len(positions) - i - 1), i + 1)

RECURSIVE NotionalAtRisk(_, _)
NotionalAtRisk(positions, i) ==
  IF i = 0 THEN 0 ELSE NotionalAtRisk(positions, i - 1) + positions[i].notional

RECURSIVE PnlSum(_, _)
PnlSum(positions, i) ==
  IF i = 0 THEN 0 ELSE PnlSum(positions, i - 1) + positions[i].unrealized_pnl

HealthOf(portfolio, collected) ==
  LET equity == portfolio.equity + PnlSum(collected, Len(collected)) IN
  [is_liquidatable |-> equity < portfolio.mm,
   equity |-> equity,
   mm |-> portfolio.mm,
   deficit |-> IF equity < portfolio.mm THEN portfolio.mm - equity ELSE 0,
   positions |-> BubbleSort(collected, 0),
   position_count |-> Len(collected),
   total_notional_at_risk |-> NotionalAtRisk(collected, Len(collected))]

check_liquidation_health(portfolio, mark_prices) ==
  HealthOf(portfolio, CollectLoop(portfolio, mark_prices, 1, <<>>))

DefaultLiquidationResult ==
  [positions_closed |-> 0, total_notional |-> 0, total_fees |-> 0,
   insurance_contribution |-> 0, realized_pnl |-> 0, remaining_deficit |-> 0,
   success |-> FALSE]

LiquidationMaxPrice(pos) ==
  IF pos.qty > 0
  THEN (pos.mark_price * (10000 - MAX_LIQUIDATION_SLIPPAGE_BPS)) \div 10000
  ELSE (pos.mark_price * (10000 + MAX_LIQUIDATION_SLIPPAGE_BPS)) \div 10000

(* The stub that stands for the CPI: the order is filled in full at max_price. *)
execute_slab_liquidation(close_qty, max_price) ==
  [filled_qty |-> close_qty, avg_price |-> max_price,
   notional |-> mul_u64(close_qty, max_price), realized_pnl |-> 0]

MmFreed(notional, mm, total_notional_at_risk) ==
  IF total_notional_at_risk > 0 THEN (notional * mm) \div total_notional_at_risk ELSE 0

(* One turn of the loop over health_check.positions for a filled order. *)
GlobalClose(st, pos, liq_result, total_notional_at_risk) ==
  [portfolio |-> update_exposure(st.portfolio, pos.slab_idx, pos.instrument_idx, 0),
   result |-> [st.result EXCEPT
                 !.positions_closed = @ + 1,
                 !.total_notional = @ + liq_result.notional,
                 !.total_fees = @ + (liq_result.notional * LIQUIDATION_FEE_BPS) \div 10000,
                 !.insurance_contribution =
                    @ + (liq_result.notional * INSURANCE_FUND_BPS) \div 10000,
                 !.realized_pnl = @ + liq_result.realized_pnl],
   remaining_deficit |->
     st.remaining_deficit - MmFreed(liq_result.notional, st.portfolio.mm,
                                    total_notional_at_risk)]

RECURSIVE GlobalLoop(_, _, _)
GlobalLoop(st, health_check, i) ==
  IF i > health_check.position_count \/ st.remaining_deficit <= 0 THEN st
  ELSE GlobalLoop(
         GlobalClose(st, health_check.positions[i],
                     execute_slab_liquidation(Abs(health_check.positions[i].qty),
                                              LiquidationMaxPrice(health_check.positions[i])),
                     health_check.total_notional_at_risk),
         health_check, i + 1)

calculate_remaining_exposure(portfolio) == ExposureSum(portfolio.exposures, ExposureKeys)

(* After the loop: the vault, the margin and the result. *)
GlobalSettled(st, vault, health_check, new_im) ==
  [err |-> "Ok",
   vault |-> [vault EXCEPT
                !.balance =
                   saturating_sub(
                     IF st.result.realized_pnl > 0 THEN @ + st.result.realized_pnl
                     ELSE saturating_sub(@, 0 - st.result.realized_pnl),
                     st.result.total_fees + st.result.insurance_contribution)],
   portfolio |-> update_margin(st.portfolio, new_im, new_im \div 2),
   result |-> [st.result EXCEPT
                 !.remaining_deficit = IF st.remaining_deficit > 0
                                       THEN st.remaining_deficit ELSE 0,
                 !.success = st.remaining_deficit <= 0]]

GlobalLooped(st, vault, health_check) ==
  GlobalSettled(st, vault, health_check,
                calculate_portfolio_im(calculate_remaining_exposure(st.portfolio),
                                       IF health_check.position_count > 0
                                       THEN health_check.positions[1].mark_price ELSE 0))

GlobalRefused(err, portfolio, vault) ==
  [err |-> err, vault |-> vault, portfolio |-> portfolio, result |-> DefaultLiquidationResult]

process_global_liquidation(portfolio, user, vault, health_check, current_ts) ==
  IF portfolio.user # user THEN GlobalRefused("InvalidPortfolio", portfolio, vault)
  ELSE IF ~health_check.is_liquidatable
  THEN GlobalRefused("PortfolioNotLiquidatable", portfolio, vault)
  ELSE GlobalLooped(GlobalLoop([portfolio |-> portfolio, result |-> DefaultLiquidationResult,
                                remaining_deficit |-> health_check.deficit],
                               health_check, 1),
                    vault, health_check)

(* Inputs.  A mark list prices every exposure, or every exposure but the  *)
(* first; prices differ between shards.                                     *)
GlobalQtys == {0 - 2, 0, 3}
GlobalEquities == {0, 5}
GlobalMms == {0, 10, 300}
MarkOf(key, step) == 100 + step * (key[1] + key[2])
MarkLists ==
  {[i \in 1 .. ExposureCount |->
      <<ExposureAt(i)[1], ExposureAt(i)[2], MarkOf(ExposureAt(i), step)>>] :
     step \in {0, 50}}
  \cup {[i \in 1 .. (ExposureCount - 1) |->
           <<ExposureAt(i + 1)[1], ExposureAt(i + 1)[2], MarkOf(ExposureAt(i + 1), 50)>>]}

InitGlobal ==
  /\ InitShard
  /\ insurance = <<>>
  /\ shards = <<>>
  /\ out = [call |-> "none"]
  /\ \E exposures \in [ExposureKeys -> GlobalQtys], equity \in GlobalEquities,
        mm \in GlobalMms :
       router = [vault |-> [balance |-> 1000],
                 portfolio |-> [user |-> 0, equity |-> equity, im |-> 2 * mm, mm |-> mm,
                                exposures |-> exposures]]

(* A liquidator checks the health of the portfolio at the marks and hands  *)
(* the result to process_global_liquidation.                                *)
GlobalLiquidationIn ==
  /\ out.call = "none"
  /\ \E mark_prices \in MarkLists, user \in Users :
       LET health_check == check_liquidation_health(router.portfolio, mark_prices)
           r == process_global_liquidation(router.portfolio, user, router.vault,
                                           health_check, 1)
       IN /\ router' = [vault |-> r.vault, portfolio |-> r.portfolio]
          /\ out' = [call |-> "process_global_liquidation",
                     args |-> [portfolio |-> router.portfolio, user |-> user,
                               vault |-> router.vault, mark_prices |-> mark_prices,
                               health_check |-> health_check],
                     err |-> r.err, result |-> r.result]
  /\ UNCHANGED <<slab, ret, hist, shards, insurance>>

NextGlobal == GlobalLiquidationIn

SpecGlobal == InitGlobal /\ [][NextGlobal]_vars

(* The call of process_global_liquidation seen from its outcome. *)
GlobalCalled == out.call = "process_global_liquidation"
GlobalMark(key) == FindMark(out.args.mark_prices, key[1], key[2], 1)
GlobalHeld(key) == out.args.portfolio.exposures[key] # 0
GlobalPriced(key) == GlobalHeld(key) /\ GlobalMark(key) # 0
GlobalClosed(key) == GlobalHeld(key) /\ router.portfolio.exposures[key] = 0
GlobalKept(key) ==
  GlobalHeld(key) /\ router.portfolio.exposures[key] = out.args.portfolio.exposures[key]
GlobalNotional(key) == Abs(out.args.portfolio.exposures[key]) * GlobalMark(key)
GlobalDeficit == out.args.portfolio.mm - out.args.portfolio.equity

RECURSIVE GlobalAtRisk(_)
GlobalAtRisk(keys) ==
  IF keys = {} THEN 0
  ELSE LET k == CHOOSE x \in keys : TRUE
       IN GlobalNotional(k) + GlobalAtRisk(keys \ {k})

(* The deficit that closing the position of key pays off. *)
GlobalFreed(key) ==
  MmFreed(Abs(out.args.portfolio.exposures[key])
            * LiquidationMaxPrice([qty |-> out.args.portfolio.exposures[key],
                                   mark_price |-> GlobalMark(key)]),
          out.args.portfolio.mm, GlobalAtRisk(ExposureKeys))

RECURSIVE GlobalFreedSum(_)
GlobalFreedSum(keys) ==
  IF keys = {} THEN 0
  ELSE LET k == CHOOSE x \in keys : TRUE
       IN GlobalFreed(k) + GlobalFreedSum(keys \ {k})

GlobalClosedKeys == {k \in ExposureKeys : GlobalClosed(k)}

(* Refusal changes nothing; success means the portfolio was below mm. *)
GlobalOnlyBelowMm ==
  /\ out.err = "Ok" => out.args.portfolio.equity < out.args.portfolio.mm
  /\ out.err # "Ok" =>
       /\ router.portfolio = out.args.portfolio
       /\ router.vault = out.args.vault

(* Positions in candidates are closed in full, largest notional first,     *)
(* until the deficit is paid or none of them is left, and no further.       *)
GlobalClosesInOrder(candidates) ==
  /\ \A k \in ExposureKeys : GlobalClosed(k) \/ GlobalKept(k) \/ ~GlobalHeld(k)
  /\ GlobalClosedKeys \subseteq candidates
  /\ out.result.positions_closed = Cardinality(GlobalClosedKeys)
  /\ \A k1 \in GlobalClosedKeys, k2 \in candidates \ GlobalClosedKeys :
       GlobalNotional(k1) >= GlobalNotional(k2)
  /\ \/ GlobalDeficit - GlobalFreedSum(GlobalClosedKeys) <= 0
     \/ candidates \subseteq GlobalClosedKeys
  /\ GlobalClosedKeys # {} =>
       \E k \in GlobalClosedKeys :
         /\ \A j \in GlobalClosedKeys : GlobalNotional(j) >= GlobalNotional(k)
         /\ GlobalDeficit - GlobalFreedSum(GlobalClosedKeys \ {k}) > 0
  /\ out.result.remaining_deficit =
       IF GlobalDeficit - GlobalFreedSum(GlobalClosedKeys) > 0
       THEN GlobalDeficit - GlobalFreedSum(GlobalClosedKeys) ELSE 0

CommitTrade(s, c, k) == c.slab.trades[(s.header.trade_write_idx + k - 1) % NTrades]

(* The commit c of the takes W has appended one trade a take, with the     *)
(* maker's price and the take's quantity.                                   *)
TradesPriced(s, c, W) ==
  /\ c.slab.header.trade_write_idx = s.header.trade_write_idx + Len(W)
  /\ \A k \in 1 .. Len(W) :
       /\ CommitTrade(s, c, k).price = s.orders[W[k].order_idx].price
       /\ CommitTrade(s, c, k).qty = W[k].qty

(* Each of those trades names its maker order and the taker's side. *)
TradesNamed(s, c, W, side) ==
  \A k \in 1 .. Len(W) :
    /\ CommitTrade(s, c, k).order_id_maker = s.orders[W[k].order_idx].order_id
    /\ CommitTrade(s, c, k).side = side

(* The takes of the reservation in slot i, every maker of which rests. *)
HeldTakes(s, i) == ChainTakes(s, s.reservations[i].slice_head, NSlices + 1)
MakersRest(s, W) == \A k \in 1 .. Len(W) : get_order(s, W[k].order_idx)

(* C33: each fill that a commit executes appends one trade with the maker  *)
(* order's order_id, the taker's side, the maker's resting price and the   *)
(* slice's quantity, also when the fill consumes the maker order.           *)
C33_CommitRecordsTradePerFill ==
  \A h \in 1 .. MaxHoldId :
    LET i == find_reservation_by_hold_id(slab, h) IN
    (i # INVALID_INDEX /\ MakersRest(slab, HeldTakes(slab, i))) =>
      LET c == process_commit(slab, h, 1) IN
      c.err = "Ok" =>
        /\ TradesPriced(slab, c, HeldTakes(slab, i))
        /\ TradesNamed(slab, c, HeldTakes(slab, i), slab.reservations[i].side)

(* What the code keeps: one trade a fill, at the maker's price, for the    *)
(* slice's quantity; the maker's order_id when the maker still rests after *)
(* the fill.                                                                *)
CommitTradesPricedAndSized ==
  \A h \in 1 .. MaxHoldId :
    LET i == find_reservation_by_hold_id(slab, h) IN
    (i # INVALID_INDEX /\ MakersRest(slab, HeldTakes(slab, i))) =>
      LET c == process_commit(slab, h, 1) IN
      c.err = "Ok" =>
        /\ TradesPriced(slab, c, HeldTakes(slab, i))
        /\ \A k \in 1 .. Len(HeldTakes(slab, i)) :
             /\ CommitTrade(slab, c, k).side = "Buy"
             /\ CommitTrade(slab, c, k).order_id_maker =
                  IF get_order(c.slab, HeldTakes(slab, i)[k].order_idx)
                  THEN slab.orders[HeldTakes(slab, i)[k].order_idx].order_id
                  ELSE 0

(* A Sell taker's commit whose maker outlives the fill. *)
SellTakerPartialFill ==
  \E h \in 1 .. MaxHoldId :
    LET i == find_reservation_by_hold_id(slab, h) IN
    /\ i # INVALID_INDEX
    /\ slab.reservations[i].side = "Sell"
    /\ MakersRest(slab, HeldTakes(slab, i))
    /\ HeldTakes(slab, i) # <<>>
    /\ LET c == process_commit(slab, h, 1) IN
       /\ c.err = "Ok"
       /\ get_order(c.slab, HeldTakes(slab, i)[1].order_idx)

(* ---------------------------------------------------------------------- *)
(* The expiry sweep                                                        *)
(* ---------------------------------------------------------------------- *)

(* The reservations that the sweep c of s has freed. *)
SweptSet(s, c) ==
  {i \in ReservationIdx : s.reservations[i].used /\ ~c.slab.reservations[i].used}

RECURSIVE SweptChains(_, _)
SweptChains(s, S) ==
  IF S = {} THEN {}
  ELSE LET x == CHOOSE y \in S : TRUE
       IN Chain(s, x) \cup SweptChains(s, S \ {x})

(* The sweep c of s at current_ts with max_cleanup has freed at most       *)
(* max_cleanup reservations, all uncommitted and past their expiry, has    *)
(* given the quantity of their slices back to the makers and has touched   *)
(* nothing else.                                                            *)
SweptOnlyExpired(s, c, current_ts, max_cleanup) ==
  /\ c.cleaned = Cardinality(SweptSet(s, c))
  /\ c.cleaned <= max_cleanup
  /\ \A i \in SweptSet(s, c) :
       /\ ~s.reservations[i].committed
       /\ current_ts > s.reservations[i].expiry_ms
  /\ \A i \in ReservationIdx \ SweptSet(s, c) : c.slab.reservations[i] = s.reservations[i]
  /\ \A k \in SweptChains(s, SweptSet(s, c)) : ~c.slab.slices[k].used
  /\ \A k \in SliceIdx \ SweptChains(s, SweptSet(s, c)) : c.slab.slices[k] = s.slices[k]
  /\ \A o \in OrderIdx :
       c.slab.orders[o] =
         [s.orders[o] EXCEPT
            !.reserved_qty =
               @ - SliceQtySum(s, {k \in SweptChains(s, SweptSet(s, c)) :
                                     s.slices[k].order_idx = o})]

(* C34: one expiry sweep frees at most max_cleanup reservations, only      *)
(* uncommitted ones with current_ts > expiry_ms, releases each of their     *)
(* slices back to the maker's reserved_qty, and leaves every other         *)
(* reservation, slice and order untouched.                                  *)
C34_SweepFreesOnlyExpired ==
  \A current_ts \in TsSet, max_cleanup \in {1, 2} :
    SweptOnlyExpired(slab, cleanup_expired_reservations(slab, current_ts, max_cleanup),
                     current_ts, max_cleanup)

(* A sweep has freed the reservation of a hold that was neither committed  *)
(* nor cancelled, and an expired reservation is left for the next sweep.    *)
C34_Witness ==
  /\ ret.op = "cleanup"
  /\ \E h \in HoldIds :
       hist[h] = "live" /\ find_reservation_by_hold_id(slab, h) = INVALID_INDEX
  /\ \E i \in ReservationIdx :
       /\ slab.reservations[i].used
       /\ slab.reservations[i].expiry_ms > 0
       /\ Chain(slab, i) # {}

(* The shard with expiry sweeps: one resting price. *)
NextSweep ==
  \/ PlaceOrderIn(MaxSeqno, {0}, {0}, {"Sell"}, {100}, Qtys)
  \/ ReserveIn(MaxSeqno, {0}, {0}, {"Buy"}, Qtys, {100}, TtlSet)
  \/ CommitIn(MaxSeqno, TsSet)
  \/ CancelIn(MaxSeqno)
  \/ CancelOrderIn(MaxSeqno, {0})
  \/ CleanupIn(MaxSeqno, TsSet)

SpecSweep == Init /\ [][NextSweep]_vars

(***************************************************************************)
(* Auto-deleverage selection.  programs/slab/src/state/insurance.rs         *)
(***************************************************************************)
MAX_ADL_POSITIONS == 16
MaxAdl == 3

calculate_adl_priority(unrealized_pnl, position_value, margin_used) ==
  IF position_value = 0 \/ margin_used = 0 THEN 0
  ELSE (IF unrealized_pnl >= 0
        THEN Min((unrealized_pnl * 10000) \div margin_used, 5000)
        ELSE 0)
       + Min((position_value * 100) \div margin_used, 5000)

(* The inner loop of the sort by priority_score, descending. *)
RECURSIVE AdlPass(_, _, _)
AdlPass(priorities, j, last) ==
  IF j > last THEN priorities
  ELSE AdlPass(IF priorities[j].priority_score < priorities[j + 1].priority_score
               THEN [priorities EXCEPT ![j] = priorities[j + 1], ![j + 1] = priorities[j]]
               ELSE priorities,
               j + 1, last)

(* Variant: the pass leaves the priorities in the order given. *)
AdlSort_unsorted(priorities, i) == priorities

RECURSIVE AdlSort(_, _)
AdlSort(priorities, i) ==
  IF i >= Len(priorities) THEN priorities
  ELSE AdlSort(AdlPass(priorities, 1, Len(priorities) - i - 1), i + 1)

(* The loop over the sorted priorities; result.count is Len(selections). *)
RECURSIVE SelectLoop(_, _, _, _, _)
SelectLoop(priorities, i, selections, remaining, side) ==
  IF i > Len(priorities) \/ remaining <= 0 \/ Len(selections) >= MAX_ADL_POSITIONS
  THEN [selections |-> selections, count |-> Len(selections),
        remaining_qty |-> IF remaining > 0 THEN remaining ELSE 0]
  ELSE IF (side = "Buy" /\ priorities[i].qty < 0) \/ (side = "Sell" /\ priorities[i].qty > 0)
  THEN SelectLoop(priorities, i + 1,
                  Append(selections,
                         [account_idx |-> priorities[i].account_idx,
                          position_idx |-> priorities[i].position_idx,
                          qty |-> Min(Abs(priorities[i].qty), remaining)]),
                  remaining - Min(Abs(priorities[i].qty), remaining), side)
  ELSE SelectLoop(priorities, i + 1, selections, remaining, side)

select_adl_positions(priorities, target_qty, side) ==
  SelectLoop(AdlSort(priorities, 0), 1, <<>>, target_qty, side)

(* Inputs: positions as <<qty, unrealized_pnl, position_value, margin_used>>; *)
(* lists of up to MaxAdl of them, and lists of one more than               *)
(* MAX_ADL_POSITIONS equal positions.                                       *)
AdlQtys == {0 - 2, 1}
AdlDetails == {<<1, 100, 1>>, <<0, 10, 2>>, <<0 - 1, 10, 1>>}
AdlTargets == {0, 2, 3, MAX_ADL_POSITIONS + 4}

AdlPriority(i, qty, d) ==
  [account_idx |-> i, position_idx |-> i, instrument_idx |-> 0, qty |-> qty,
   priority_score |-> calculate_adl_priority(d[1], d[2], d[3]),
   unrealized_pnl |-> d[1], position_value |-> d[2], margin_used |-> d[3]]

AdlLists ==
  UNION {{[i \in 1 .. n |-> AdlPriority(i, f[i][1], f[i][2])] :
            f \in [1 .. n -> AdlQtys \X AdlDetails]} : n \in 0 .. MaxAdl}
  \cup {[i \in 1 .. (MAX_ADL_POSITIONS + 1) |-> AdlPriority(i, qty, d)] :
          qty \in AdlQtys, d \in AdlDetails}

InitAdl ==
  /\ InitShard
  /\ insurance = <<>>
  /\ shards = <<>>
  /\ router = <<>>
  /\ \E priorities \in AdlLists : out = [call |-> "none", priorities |-> priorities]

SelectAdlIn ==
  /\ out.call = "none"
  /\ \E target_qty \in AdlTargets, side \in Sides :
       out' = [call |-> "select_adl_positions",
               args |-> [priorities |-> out.priorities, target_qty |-> target_qty,
                         side |-> side],
               result |-> select_adl_positions(out.priorities, target_qty, side)]
  /\ UNCHANGED <<slab, ret, hist, shards, router, insurance>>

NextAdl == SelectAdlIn

SpecAdl == InitAdl /\ [][NextAdl]_vars

(* The selection seen from its outcome: position_idx is the place of a     *)
(* position in the list handed in.                                          *)
AdlCalled == out.call = "select_adl_positions"
AdlOpposing ==
  {i \in 1 .. Len(out.args.priorities) :
     IF out.args.side = "Buy" THEN out.args.priorities[i].qty < 0
     ELSE out.args.priorities[i].qty > 0}
AdlScore(i) ==
  LET p == out.args.priorities[i] IN
  IF p.position_value = 0 \/ p.margin_used = 0 THEN 0
  ELSE Min((IF p.unrealized_pnl >= 0 THEN p.unrealized_pnl * 10000 ELSE 0) \div p.margin_used,
           5000)
       + Min((p.position_value * 100) \div p.margin_used, 5000)
AdlTaken(i) ==
  {k \in 1 .. out.result.count : out.result.selections[k].position_idx = i}
AdlFull(i) ==
  \E k \in AdlTaken(i) : out.result.selections[k].qty = Abs(out.args.priorities[i].qty)

RECURSIVE AdlTakenSum(_)
AdlTakenSum(k) == IF k = 0 THEN 0 ELSE AdlTakenSum(k - 1) + out.result.selections[k].qty

(* Opposing positions only, each at most once and for at most its |qty|,   *)
(* in non-increasing order of score, no position passed over for one of    *)
(* a lower score, and the quantities add up to the target.                  *)
AdlPicksByScore ==
  /\ out.result.count = Len(out.result.selections)
  /\ \A k \in 1 .. out.result.count :
       /\ out.result.selections[k].position_idx \in AdlOpposing
       /\ out.result.selections[k].qty >= 1
       /\ out.result.selections[k].qty
            <= Abs(out.args.priorities[out.result.selections[k].position_idx].qty)
  /\ \A i \in AdlOpposing : Cardinality(AdlTaken(i)) <= 1
  /\ \A k \in 1 .. (out.result.count - 1) :
       /\ AdlScore(out.result.selections[k].position_idx)
            >= AdlScore(out.result.selections[k + 1].position_idx)
       /\ AdlFull(out.result.selections[k].position_idx)
  /\ \A i \in AdlOpposing, j \in AdlOpposing :
       (AdlTaken(i) # {} /\ AdlTaken(j) = {}) => AdlScore(i) >= AdlScore(j)
  /\ AdlTakenSum(out.result.count) + out.result.remaining_qty = out.args.target_qty

build_commit_cpi_data(hold_id, current_ts) ==
  [discriminator |-> 1, size |-> 17, args |-> <<hold_id, current_ts>>]

build_cancel_cpi_data(hold_id) ==
  [discriminator |-> 2, size |-> 9, args |-> <<hold_id>>]

(* The handler that process_instruction selects for a first byte. *)
SlabInstruction(discriminator) ==
  CASE discriminator = 0 -> "Reserve"
    [] discriminator = 1 -> "Commit"
    [] discriminator = 2 -> "Cancel"
    [] discriminator = 3 -> "BatchOpen"
    [] discriminator = 4 -> "Initialize"
    [] discriminator = 5 -> "AddInstrument"
    [] discriminator = 6 -> "UpdateFunding"
    [] discriminator = 7 -> "Liquidation"
    [] OTHER -> "InvalidInstruction"

Encoders == {"cpi", "multi_slab"}

InitEncode ==
  /\ InitShard
  /\ insurance = <<>>
  /\ shards = <<>>
  /\ router = <<>>
  /\ out = [call |-> "none"]

Encoded(instruction, encoder, data) ==
  /\ out' = [call |-> "encode", instruction |-> instruction, encoder |-> encoder,
             data |-> data, handler |-> SlabInstruction(data.discriminator)]
  /\ UNCHANGED <<slab, ret, hist, shards, router, insurance>>

EncodeReserveIn ==
  \E encoder \in Encoders, a \in AcctIdx, i \in InstrIdx, sd \in {0, 1}, q \in Qtys,
     px \in Prices, ttl \in TtlSet :
    /\ out.call \in {"none", "encode"}
    /\ Encoded("Reserve", encoder,
               IF encoder = "cpi" THEN serialize_reserve_data(a, i, sd, q, px, ttl)
               ELSE build_reserve_cpi_data(a, i, sd, q, px, ttl))

EncodeCommitIn ==
  \E encoder \in Encoders, h \in HoldIds, ts \in TsSet :
    /\ out.call \in {"none", "encode"}
    /\ Encoded("Commit", encoder,
               IF encoder = "cpi" THEN serialize_commit_data(h, ts)
               ELSE build_commit_cpi_data(h, ts))

EncodeCancelIn ==
  \E encoder \in Encoders, h \in HoldIds :
    /\ out.call \in {"none", "encode"}
    /\ Encoded("Cancel", encoder,
               IF encoder = "cpi" THEN serialize_cancel_data(h)
               ELSE build_cancel_cpi_data(h))

NextEncode == EncodeReserveIn \/ EncodeCommitIn \/ EncodeCancelIn

SpecEncode == InitEncode /\ [][NextEncode]_vars

(* C36: whichever router-side encoder builds a Reserve, Commit or Cancel,  *)
(* its first byte is 0, 1 or 2 respectively, the byte that the shard       *)
(* dispatches to the handler of that name.                                  *)
C36_DiscriminatorsAgree ==
  out.call = "encode" =>
    /\ out.handler = out.instruction
    /\ out.data.discriminator =
         CASE out.instruction = "Reserve" -> 0
           [] out.instruction = "Commit" -> 1
           [] out.instruction = "Cancel" -> 2

(* What holds: the builders of multi_slab.rs agree with the shard. *)
MultiSlabBuildersAgree ==
  (out.call = "encode" /\ out.encoder = "multi_slab") => out.handler = out.instruction

(* And the serializers of cpi.rs never do. *)
CpiSerializersDisagree ==
  (out.call = "encode" /\ out.encoder = "cpi") =>
    /\ out.handler # out.instruction
    /\ out.data.discriminator \in {slab_ix_RESERVE, slab_ix_COMMIT, slab_ix_CANCEL}

(* ---------------------------------------------------------------------- *)
(* The position chain of an account                                        *)
(* ---------------------------------------------------------------------- *)

(* The records met from pos_idx through next_in_account, in order; the     *)
(* walk is cut after NPositions + 1 records.                                *)
RECURSIVE PositionWalk(_, _, _)
PositionWalk(s, pos_idx, fuel) ==
  IF pos_idx \notin PositionIdx \/ fuel = 0 THEN <<>>
  ELSE <<pos_idx>> \o PositionWalk(s, s.positions[pos_idx].next_in_account, fuel - 1)

AccountWalk(s, a) == PositionWalk(s, s.accounts[a].position_head, NPositions + 1)

ChainSound(s, a) ==
  /\ \A k \in 1 .. Len(AccountWalk(s, a)) :
       /\ s.positions[AccountWalk(s, a)[k]].used
       /\ s.positions[AccountWalk(s, a)[k]].account_idx = a
  /\ \A j, k \in 1 .. Len(AccountWalk(s, a)) :
       j # k => AccountWalk(s, a)[j] # AccountWalk(s, a)[k]
  /\ Len(AccountWalk(s, a)) <= NPositions

ChainComplete(s, a) ==
  AccountPositions(s, a) \subseteq {AccountWalk(s, a)[k] : k \in 1 .. Len(AccountWalk(s, a))}

(* C37: in every reachable shard state the walk from an account's          *)
(* position_head through next_in_account meets only in-use positions of    *)
(* that account, meets none twice, and meets every in-use position of the  *)
(* account; a position freed by the commit that closes it is off the       *)
(* chain.                                                                   *)
C37_PositionChainExact ==
  \A a \in AcctIdx :
    get_account(slab, a) => ChainSound(slab, a) /\ ChainComplete(slab, a)

(* The parts of it, to tell the failures apart. *)
PositionChainSound == \A a \in AcctIdx : get_account(slab, a) => ChainSound(slab, a)
PositionChainComplete == \A a \in AcctIdx : get_account(slab, a) => ChainComplete(slab, a)
PositionChainEnds ==
  \A a \in AcctIdx :
    get_account(slab, a) =>
      \A j, k \in 1 .. Len(AccountWalk(slab, a)) :
        j # k => AccountWalk(slab, a)[j] # AccountWalk(slab, a)[k]

(* ---------------------------------------------------------------------- *)
(* Insurance: what a completed withdrawal hands out                         *)
(* ---------------------------------------------------------------------- *)
WithdrawalCompleted == out'.call = "complete_withdrawal" /\ out'.result.err = "Ok"

(* C38: the amount a successful complete_withdrawal returns is at most the *)
(* pool balance just before the call and equals the decrease of the        *)
(* balance, whatever contributions, payouts and open-interest updates ran  *)
(* since initiate_withdrawal.                                               *)
C38_WithdrawalBackedByBalance ==
  [][WithdrawalCompleted =>
       /\ out'.result.amount <= insurance.pool.balance
       /\ out'.result.amount = insurance.pool.balance - insurance'.pool.balance]_vars

(* What the code does: it returns the pending amount, and the balance     *)
(* falls by it only when the balance still covers it.                      *)
WithdrawalReturnsPending ==
  [][WithdrawalCompleted =>
       /\ out'.result.amount = insurance.pool.pending_withdrawal
       /\ insurance'.pool.balance
            = saturating_sub(insurance.pool.balance, insurance.pool.pending_withdrawal)
       /\ (insurance.pool.pending_withdrawal <= insurance.pool.balance =>
             out'.result.amount = insurance.pool.balance - insurance'.pool.balance)]_vars

(* A completed withdrawal that returned more than the pool held. *)
WithdrawalOverdrawn ==
  /\ out.call = "complete_withdrawal"
  /\ out.result.err = "Ok"
  /\ insurance.pool.balance = 0
  /\ out.result.amount > insurance.pool.total_contributions - insurance.pool.total_payouts

(* ---------------------------------------------------------------------- *)
(* What a commit charges against what its reserve quoted                   *)
(* ---------------------------------------------------------------------- *)
ChargePrices == {100, 125}
ChargeQtys == {10, 20}
ChargeLimit == MaxSeqno + 1

(* Resting asks at two prices whose fees round, Buy takers with and        *)
(* without expiry, cancels of holds and of orders in between.              *)
NextCharge ==
  \/ PlaceOrderIn(ChargeLimit, {0}, {0}, {"Sell"}, ChargePrices, ChargeQtys)
  \/ ReserveIn(ChargeLimit, {1}, {0}, {"Buy"}, ChargeQtys, ChargePrices, TtlSet)
  \/ CommitIn(ChargeLimit, TsSet)
  \/ CancelIn(ChargeLimit)
  \/ CancelOrderIn(ChargeLimit, {0})

SpecCharge == Init /\ [][NextCharge]_vars

(* The max_charge that the reserve of hold_id returned: process_reserve    *)
(* stores in the reservation the value it returns.                         *)
QuotedCharge(s, hold_id) == s.reservations[find_reservation_by_hold_id(s, hold_id)].max_charge

ReserveStoresQuote ==
  \A q \in ChargeQtys, px \in ChargePrices, ttl \in TtlSet :
    LET r == process_reserve(slab, 1, 0, "Buy", q, px, ttl) IN
    r.err = "Ok" => QuotedCharge(r.slab, r.hold_id) = r.max_charge

(* C39: a successful commit of a hold that a reserve created returns       *)
(* notional + fees at most the max_charge that this reserve returned,      *)
(* whatever instructions ran on the shard between the two.                 *)
C39_CommitWithinQuote ==
  /\ ReserveStoresQuote
  /\ \A h \in HoldIds, ts \in TsSet :
       LET c == process_commit(slab, h, ts) IN
       (hist[h] = "live" /\ c.err = "Ok") => c.notional + c.fees <= QuotedCharge(slab, h)

(* A hold whose commit would charge more than its quote. *)
CommitAboveQuote ==
  \E h \in HoldIds :
    LET c == process_commit(slab, h, 1) IN
    /\ hist[h] = "live"
    /\ c.err = "Ok"
    /\ c.notional + c.fees > QuotedCharge(slab, h)

(* A hold whose commit succeeds with a fee after an order was cancelled    *)
(* since its reserve.                                                       *)
CommitAfterCancelOrder ==
  /\ ret.op = "cancel_order" /\ ret.err = "Ok"
  /\ \E h \in HoldIds :
       LET c == process_commit(slab, h, 1) IN
       /\ hist[h] = "live"
       /\ c.err = "Ok"
       /\ c.fees > 0
       /\ c.notional + c.fees <= QuotedCharge(slab, h)

(* A hold whose per-fill fees round below the quoted fee. *)
CommitRoundsBelowQuote ==
  \E h \in HoldIds :
    LET c == process_commit(slab, h, 1) IN
    /\ hist[h] = "live"
    /\ c.err = "Ok"
    /\ c.fees > 0
    /\ c.notional + c.fees < QuotedCharge(slab, h)

(* The same shard with takers of one slice each: a reservation slot is     *)
(* allocated before any slice, so the slice pool never runs out under a    *)
(* reserve and no reserve fails half-way.                                   *)
NextOneSlice ==
  \/ PlaceOrderIn(ChargeLimit, {0}, {0}, {"Sell"}, ChargePrices, ChargeQtys)
  \/ ReserveIn(ChargeLimit, {1}, {0}, {"Buy"}, {10}, ChargePrices, TtlSet)
  \/ CommitIn(ChargeLimit, TsSet)
  \/ CancelIn(ChargeLimit)
  \/ CancelOrderIn(ChargeLimit, {0})
  \/ CleanupIn(ChargeLimit, TsSet)

SpecOneSlice == Init /\ [][NextOneSlice]_vars

(* There, a commit succeeds only on a live hold and within its quote. *)
OneSliceCommitWithinQuote ==
  \A h \in HoldIds, ts \in TsSet :
    LET c == process_commit(slab, h, ts) IN
    c.err = "Ok" => hist[h] = "live" /\ c.notional + c.fees <= QuotedCharge(slab, h)

(* ---------------------------------------------------------------------- *)
(* Expiry as time passes                                                   *)
(* ---------------------------------------------------------------------- *)
ExpiryLimit == MaxSeqno - 1

(* The shard with a clock: out.now is the time that sweeps and commits are *)
(* given as current_ts.                                                    *)
InitExpiry ==
  /\ InitShard
  /\ insurance = <<>>
  /\ shards = <<>>
  /\ out = [now |-> 0]
  /\ router = <<>>

(* The clock runs until it is past every ttl. *)
TickNow ==
  /\ \E ttl \in TtlSet : out.now <= ttl
  /\ out' = [out EXCEPT !.now = @ + 1]
  /\ UNCHANGED <<slab, ret, hist, shards, router, insurance>>

(* A sweep is never refused: it is issued whatever the seqno. *)
SweepNow ==
  /\ out.now \in Nat
  /\ \E max_cleanup \in {1, 2} :
       Apply("cleanup", 0, cleanup_expired_reservations(slab, out.now, max_cleanup))

CommitNow ==
  /\ Budget(ExpiryLimit)
  /\ \E h \in HoldIds : Apply("commit", h, process_commit(slab, h, out.now))

NextExpiry ==
  \/ PlaceOrderIn(ExpiryLimit, {0}, {0}, {"Sell"}, {100}, Qtys)
  \/ ReserveIn(ExpiryLimit, {0}, {0}, {"Buy"}, Qtys, {100}, TtlSet)
  \/ CommitNow
  \/ CancelIn(MaxSeqno)
  \/ TickNow
  \/ SweepNow

(* Sweeps are repeated: a sweep that would free something is eventually    *)
(* made.                                                                    *)
SpecExpiry == InitExpiry /\ [][NextExpiry]_vars /\ WF_vars(SweepNow)

HeldSlot(h) == find_reservation_by_hold_id(slab, h)

(* Every order's reserved_qty is the quantity of the slices in use on it. *)
ReservedIsSliced ==
  \A o \in OrderIdx :
    slab.orders[o].used =>
      slab.orders[o].reserved_qty
        = SliceQtySum(slab, {k \in SliceIdx : slab.slices[k].used
                                              /\ slab.slices[k].order_idx = o})

(* Hold h is held, uncommitted, and time is past its expiry_ms. *)
HoldPastExpiry(h) ==
  /\ hist[h] = "live"
  /\ HeldSlot(h) # INVALID_INDEX
  /\ ~slab.reservations[HeldSlot(h)].committed
  /\ out.now > slab.reservations[HeldSlot(h)].expiry_ms

(* The reservation of h is freed and no maker quantity is reserved beyond  *)
(* the slices still in use.                                                 *)
HoldUnlocked(h) == HeldSlot(h) = INVALID_INDEX /\ ReservedIsSliced

====
